---- MODULE Spec2Model ----
(***************************************************************************)
(* Model of the news-enrichment row processors of JULES-IA:                *)
(*   SESSOES_TSE_noticias_viaAPI.py  (variable api, specification SpecAPI) *)
(*   SESSOES_TSE_notícias_WEB.py     (variable web, specification SpecWEB) *)
(*                                                                         *)
(* Strings are sequences of chunks.  A chunk is a TLA+ string standing for *)
(* a run of characters that every operation of the code treats as a whole: *)
(* a whitespace character, one punctuation character, a URL scheme, a host *)
(* label, a JSON keyword...  Cell values of context columns are sequences  *)
(* of single characters, so that len() is Len().                           *)
(***************************************************************************)
EXTENDS Integers, Sequences, FiniteSets, TLC

VARIABLES api, web

vars == <<api, web>>

----------------------------------------------------------------------------
(* Chunk-level string helpers (Python str methods).                        *)

QUOTE == "\""
NL == "\n"
EMPTY == <<>>

\* A strip() that leaves tabs in place.
WhitespaceWithoutTab == {" ", NL, "\r"}

\* str.strip() with no argument removes these.
Whitespace == {" ", NL, "\t", "\r"}

\* The set of the elements of a sequence.
ToSet(s) == {s[i] : i \in 1..Len(s)}

\* str.lstrip(chars)
RECURSIVE lstripChars(_, _)
lstripChars(s, chars) ==
    IF s # <<>> /\ Head(s) \in chars THEN lstripChars(Tail(s), chars) ELSE s

\* str.rstrip(chars)
RECURSIVE rstripChars(_, _)
rstripChars(s, chars) ==
    IF s # <<>> /\ s[Len(s)] \in chars
    THEN rstripChars(SubSeq(s, 1, Len(s) - 1), chars)
    ELSE s

\* str.strip(chars)
stripChars(s, chars) == rstripChars(lstripChars(s, chars), chars)

\* str.strip()
strip(s) == stripChars(s, Whitespace)

\* A rstrip() that removes nothing.
RstripNothing(s) == s

\* str.rstrip()
rstrip(s) == rstripChars(s, Whitespace)

\* s.endswith(suffix)
endswith(s, suffix) ==
    /\ Len(suffix) <= Len(s)
    /\ SubSeq(s, Len(s) - Len(suffix) + 1, Len(s)) = suffix

\* s.startswith(prefix)
startswith(s, prefix) ==
    /\ Len(prefix) <= Len(s)
    /\ SubSeq(s, 1, Len(prefix)) = prefix

\* sub in s
contains(s, sub) ==
    \E i \in 1..(Len(s) - Len(sub) + 1) : SubSeq(s, i, i + Len(sub) - 1) = sub

\* sep.join(parts)
RECURSIVE join(_, _)
join(sep, parts) ==
    IF parts = <<>> THEN <<>>
    ELSE IF Len(parts) = 1 THEN parts[1]
    ELSE parts[1] \o sep \o join(sep, Tail(parts))

\* dict.get(key) or "" : a missing key and a None value both read as "".
get(row, key) == IF key \in DOMAIN row THEN row[key] ELSE <<>>

----------------------------------------------------------------------------
(* Module constants.                                                       *)

NEWS_COLUMNS == <<"noticia_TSE", "noticia_TRE", "noticia_geral">>

CONTEXT_FIELDS ==
    <<"tema", "punchline", "numero_processo", "classe_processo", "tribunal",
      "origem", "data_sessao", "relator", "partes">>

\* Default of _build_context's max_len in the viaAPI variant.
MAX_LEN_API == 240

\* Default of _build_context's max_len in the WEB variant.
MAX_LEN_WEB == 300

----------------------------------------------------------------------------
(* Request builder.                                                        *)

\* The loop body of _build_context for the fields from position i on.
RECURSIVE ContextLines(_, _, _)
ContextLines(row, max_len, i) ==
    IF i > Len(CONTEXT_FIELDS) THEN <<>>
    ELSE LET field == CONTEXT_FIELDS[i]
             raw == strip(get(row, field))
             cut == IF Len(raw) > max_len
                    THEN rstrip(SubSeq(raw, 1, max_len)) \o <<"...">>
                    ELSE raw
             rest == ContextLines(row, max_len, i + 1)
         IN IF raw = <<>> THEN rest
            ELSE << <<field, ":", " ">> \o cut >> \o rest

_build_context(row, max_len) ==
    strip(join(<<NL>>, ContextLines(row, max_len, 1)))

----------------------------------------------------------------------------
(* Response extractor: json.loads on chunk sequences.                      *)
(* A JSON value is [tag, items]: tag "obj" (items: <<[k, v], ...>>),       *)
(* "list" (items: values), "str" (items: the chunks between the quotes),   *)
(* "num", "lit" (items: the one chunk).                                    *)

JObj(members) == [tag |-> "obj", items |-> members]
JList(elems) == [tag |-> "list", items |-> elems]
JStr(chunks) == [tag |-> "str", items |-> chunks]
JNum(c) == [tag |-> "num", items |-> <<c>>]
JLit(c) == [tag |-> "lit", items |-> <<c>>]

\* What the parser returns for a text that is not JSON (JSONDecodeError).
NoParse == [ok |-> FALSE, v |-> JLit("null"), n |-> 0]

Parsed(v, n) == [ok |-> TRUE, v |-> v, n |-> n]

JsonWhitespace == {" ", NL, "\t", "\r"}
JsonLiterals == {"null", "true", "false", "NaN", "Infinity"}
JsonNumbers == {"0", "1", "42", "8080"}
\* Raw control characters end a strict JSON string with an error.
JsonControl == {NL, "\t", "\r"}

\* First position at or after i that holds no JSON whitespace.
RECURSIVE SkipWS(_, _)
SkipWS(t, i) ==
    IF i <= Len(t) /\ t[i] \in JsonWhitespace THEN SkipWS(t, i + 1) ELSE i

\* Position of the quote closing the string opened before position i, or 0.
RECURSIVE CloseQuote(_, _)
CloseQuote(t, i) ==
    IF i > Len(t) \/ t[i] \in JsonControl THEN 0
    ELSE IF t[i] = QUOTE THEN i
    ELSE CloseQuote(t, i + 1)

RECURSIVE ParseValue(_, _)
RECURSIVE ParseMembers(_, _, _)
RECURSIVE ParseElements(_, _)

\* The members of an object from position i (after "{" or ","), acc so far.
ParseMembers(t, i, acc) ==
    LET k == SkipWS(t, i)
        q == IF k <= Len(t) /\ t[k] = QUOTE THEN CloseQuote(t, k + 1) ELSE 0
        c == SkipWS(t, q + 1)
        val == ParseValue(t, c + 1)
        e == SkipWS(t, val.n)
        more == Append(acc, [k |-> SubSeq(t, k + 1, q - 1), v |-> val.v])
    IN  IF q = 0 \/ c > Len(t) \/ t[c] # ":" THEN NoParse
        ELSE IF ~val.ok \/ e > Len(t) THEN NoParse
        ELSE IF t[e] = "}" THEN Parsed(JObj(more), e + 1)
        ELSE IF t[e] = "," THEN ParseMembers(t, e + 1, more)
        ELSE NoParse

\* A run of list elements: ok, the elements, the position after the run,
\* and open when a comma ended the run (the list goes on).
NoRun == [ok |-> FALSE, open |-> FALSE, items |-> <<>>, n |-> 0]

\* What follows the element val, at position e: the end of the list or a
\* comma.
ElementAfter(t, val, e) ==
    IF e <= Len(t) /\ t[e] = "," THEN [ok |-> TRUE, open |-> TRUE, items |-> <<val.v>>, n |-> e + 1]
    ELSE IF e <= Len(t) /\ t[e] = "]" THEN [ok |-> TRUE, open |-> FALSE, items |-> <<val.v>>, n |-> e + 1]
    ELSE NoRun

\* One element of a list, parsed as val, and what follows it.
OneElement(t, val) == IF ~val.ok THEN NoRun ELSE ElementAfter(t, val, SkipWS(t, val.n))

\* The run a followed by the run b.
RunThen(a, b) ==
    IF ~b.ok THEN NoRun
    ELSE [ok |-> TRUE, open |-> b.open, items |-> a.items \o b.items, n |-> b.n]

RECURSIVE ParseRun(_, _, _)

\* The run a, and when the list goes on, up to k more elements.
RunOn(t, a, k) == IF ~a.ok \/ ~a.open THEN a ELSE RunThen(a, ParseRun(t, a.n, k))

\* Up to k elements of a list from position i (after "[" or ","): the first
\* half of them, then the rest.
ParseRun(t, i, k) ==
    IF k <= 1 THEN OneElement(t, ParseValue(t, i))
    ELSE RunOn(t, ParseRun(t, i, k \div 2), k - (k \div 2))

\* The list whose elements are the closed run r.
ListOf(r) == IF r.ok /\ ~r.open THEN Parsed(JList(r.items), r.n) ELSE NoParse

\* The elements of a list from position i (after "["); a list has fewer
\* elements than the text has chunks.
ParseElements(t, i) == ListOf(ParseRun(t, i, Len(t)))

\* One JSON value starting at or after position i.
ParseValue(t, i) ==
    LET s == SkipWS(t, i)
        n == SkipWS(t, s + 1)
        q == CloseQuote(t, s + 1)
    IN  IF s > Len(t) THEN NoParse
        ELSE IF t[s] = "{"
             THEN IF n <= Len(t) /\ t[n] = "}" THEN Parsed(JObj(<<>>), n + 1)
                  ELSE ParseMembers(t, s + 1, <<>>)
        ELSE IF t[s] = "["
             THEN IF n <= Len(t) /\ t[n] = "]" THEN Parsed(JList(<<>>), n + 1)
                  ELSE ParseElements(t, s + 1)
        ELSE IF t[s] = QUOTE
             THEN IF q = 0 THEN NoParse
                  ELSE Parsed(JStr(SubSeq(t, s + 1, q - 1)), q + 1)
        ELSE IF t[s] \in JsonNumbers THEN Parsed(JNum(t[s]), s + 1)
        ELSE IF t[s] \in JsonLiterals THEN Parsed(JLit(t[s]), s + 1)
        ELSE NoParse

\* json.loads(text): one value and nothing but whitespace after it.
json_loads(text) ==
    LET r == ParseValue(text, 1)
    IN  IF r.ok /\ SkipWS(text, r.n) > Len(text) THEN r ELSE NoParse

\* The chunk standing for a markdown code fence (three backquotes).
FENCE == "<fence>"

\* re.sub of a fence at a line start (MULTILINE) with the whitespace after
\* it: the pattern FENCE json \s* when withJson, FENCE \s* otherwise.
\* i scans text.
RECURSIVE SubFence(_, _, _)
SubFence(text, withJson, i) ==
    LET matches(f) == /\ f = 1 \/ text[f - 1] = NL
                      /\ text[f] = FENCE
                      /\ withJson => (f + 1 <= Len(text) /\ text[f + 1] = "json")
        hits == {f \in i..Len(text) : matches(f)}
        first == CHOOSE f \in hits : \A g \in hits : f <= g
        after == SkipWS(text, IF withJson THEN first + 2 ELSE first + 1)
    IN  IF hits = {} THEN SubSeq(text, i, Len(text))
        ELSE SubSeq(text, i, first - 1) \o SubFence(text, withJson, after)

\* A search that is not greedy: first "{" to the first "}" after it.
BraceSpanShortest(text) ==
    LET opens == {i \in 1..Len(text) : text[i] = "{"}
        first == CHOOSE i \in opens : \A j \in opens : i <= j
        closes == {i \in 1..Len(text) : text[i] = "}" /\ i > first}
        last == CHOOSE i \in closes : \A j \in closes : i <= j
    IN  IF opens = {} THEN <<>>
        ELSE IF closes = {} THEN <<>>
        ELSE SubSeq(text, first, last)

\* re.search(r"\{.*\}", text, re.DOTALL): first "{" to last "}", or <<>>.
BraceSpan(text) ==
    LET opens == {i \in 1..Len(text) : text[i] = "{"}
        first == CHOOSE i \in opens : \A j \in opens : i <= j
        closes == {i \in 1..Len(text) : text[i] = "}" /\ i > first}
        last == CHOOSE i \in closes : \A j \in closes : j <= i
    IN  IF opens = {} THEN <<>>
        ELSE IF closes = {} THEN <<>>
        ELSE SubSeq(text, first, last)

\* The value of the whole cleaned text when it parses, else the value of its
\* brace span (json_loads of no span fails), else the empty mapping.
FirstJson(direct, inner) ==
    IF direct.ok THEN direct.v
    ELSE IF inner.ok THEN inner.v
    ELSE JObj(<<>>)

\* _extract_json, the two re.sub calls and strip(): text after the first
\* substitution is s, after the second and strip() it is the cleaned text.
\* (Each intermediate value is bound as the element of a one-element set,
\* so that it is computed once.)
Cleaned(text) ==
    CHOOSE c \in {strip(SubFence(s, FALSE, 1)) : s \in {SubFence(text, TRUE, 1)}} : TRUE

\* An extractor that removes no fence and looks for no brace span.
ExtractDirect(text) == FirstJson(json_loads(strip(text)), NoParse)

\* _extract_json of both variants: the value json.loads gives, whatever its
\* type, else the value of the brace span, else the empty mapping.
_extract_json(text) ==
    CHOOSE v \in {FirstJson(json_loads(c), json_loads(BraceSpan(c))) :
                     c \in {Cleaned(text)}} : TRUE

\* data.get(key) on a dict: the value of the last member named key, or None
\* (here the literal null).
RECURSIVE DictGet(_, _, _)
DictGet(members, key, i) ==
    IF i = 0 THEN JLit("null")
    ELSE IF members[i].k = <<key>> THEN members[i].v
    ELSE DictGet(members, key, i - 1)

----------------------------------------------------------------------------
(* Domain classifier.                                                      *)

\* The chunks that can start a match of URL_RE (https?:// with IGNORECASE).
SCHEMES == {"https://", "http://", "HTTPS://", "HTTP://"}

\* The characters URL_RE excludes from a URL: \s ] ) > , ; " '
UrlStop == Whitespace \cup {"]", ")", ">", ",", ";", QUOTE, "'"}

\* Last position of the run of non-excluded chunks that starts at i.
RECURSIVE UrlEnd(_, _)
UrlEnd(t, i) ==
    IF i + 1 <= Len(t) /\ t[i + 1] \notin UrlStop THEN UrlEnd(t, i + 1) ELSE i

\* URL_RE.findall(t), scanning from position i.
RECURSIVE URL_RE_findall(_, _)
URL_RE_findall(t, i) ==
    LET hits == {j \in i..(Len(t) - 1) : t[j] \in SCHEMES /\ t[j + 1] \notin UrlStop}
        first == CHOOSE j \in hits : \A k \in hits : j <= k
        last == UrlEnd(t, first + 1)
    IN  IF hits = {} THEN <<>>
        ELSE <<SubSeq(t, first, last)>> \o URL_RE_findall(t, last + 1)

\* The characters _normalize_url strips from both ends: . , ; ) ] } > " '
UrlTrim == {".", ",", ";", ")", "]", "}", ">", QUOTE, "'"}

_normalize_url(url) ==
    LET cleaned == stripChars(strip(url), UrlTrim)
    IN  IF cleaned = <<>> THEN <<>>
        ELSE IF Head(cleaned) \notin SCHEMES THEN <<"https://">> \o cleaned
        ELSE cleaned

\* str.lower() on one chunk.
LowerChunk(c) ==
    CASE c = "TSE" -> "tse"
      [] c = "JUS" -> "jus"
      [] c = "BR" -> "br"
      [] c = "WWW" -> "www"
      [] c = "TRE-SP" -> "tre-sp"
      [] c = "Folha" -> "folha"
      [] OTHER -> c

lower(s) == [i \in 1..Len(s) |-> LowerChunk(s[i])]

\* The characters that end the network location of a URL.
NetlocEnd == {"/", "?", "#"}

\* urlparse(url).netloc: what follows the scheme up to the first / ? or #.
RECURSIVE NetlocFrom(_, _)
NetlocFrom(url, i) ==
    IF i > Len(url) \/ url[i] \in NetlocEnd THEN <<>>
    ELSE <<url[i]>> \o NetlocFrom(url, i + 1)

\* urlparse raises ValueError on a netloc with one square bracket only.
UrlparseRaises(netloc) == ("[" \in ToSet(netloc)) # ("]" \in ToSet(netloc))

_domain_from_url(url) ==
    LET netloc == IF url # <<>> /\ Head(url) \in SCHEMES
                  THEN NetlocFrom(url, 2)
                  ELSE <<>>
        host == lower(netloc)
    IN  IF UrlparseRaises(netloc) THEN <<>>
        ELSE IF startswith(host, <<"www", ".">>) THEN SubSeq(host, 3, Len(host))
        ELSE host

\* A dotted domain name as chunks: Dom(<<"jus", "br">>) is jus.br
Dom(labels) == join(<<".">>, [i \in 1..Len(labels) |-> <<labels[i]>>])

TSE_DOMAIN == Dom(<<"tse", "jus", "br">>)

_is_tse_domain(domain) ==
    domain = TSE_DOMAIN \/ endswith(domain, <<".">> \o TSE_DOMAIN)

\* The labels that match tre-[a-z]{2} (TRE_DOMAIN_RE is IGNORECASE).
TreLabels == {"tre-sp", "tre-rj", "tre-mg"}

\* TRE_DOMAIN_RE.search(domain): (?:^|\.)tre-[a-z]{2}\.jus\.br$
_is_tre_domain(domain) ==
    \E p \in 1..Len(domain) :
        /\ LowerChunk(domain[p]) \in TreLabels
        /\ p = 1 \/ domain[p - 1] = "."
        /\ lower(SubSeq(domain, p + 1, Len(domain))) = <<".">> \o Dom(<<"jus", "br">>)

GENERAL_DOMAINS_API ==
    << Dom(<<"folha", "uol", "com", "br">>), Dom(<<"estadao", "com", "br">>),
       Dom(<<"gazetadopovo", "com", "br">>), Dom(<<"cnnbrasil", "com", "br">>),
       Dom(<<"cnn", "com">>), Dom(<<"conjur", "com", "br">>),
       Dom(<<"migalhas", "com", "br">>) >>

GENERAL_DOMAINS_WEB ==
    GENERAL_DOMAINS_API \o
    << Dom(<<"g1", "globo", "com">>), Dom(<<"oglobo", "globo", "com">>),
       Dom(<<"poder360", "com", "br">>) >>

_is_general_domain(domain) ==
    \E b \in 1..Len(GENERAL_DOMAINS_API) :
        \/ domain = GENERAL_DOMAINS_API[b]
        \/ endswith(domain, <<".">> \o GENERAL_DOMAINS_API[b])

NoUrls == [tse |-> <<>>, tre |-> <<>>, geral |-> <<>>]

\* The loop of _classify_urls without the test of seen.
AcceptedUnseen(normalized, kind) ==
    LET n == Len(normalized)
        all == [i \in 1..n |->
                  [url |-> normalized[i], kind |-> kind[i],
                   new |-> normalized[i] # <<>> /\ kind[i] # "skip"]]
    IN  SelectSeq(all, LAMBDA e : e.new)

\* The loop of _classify_urls over the candidates, given as their normalized
\* forms and the branch each takes: a candidate is left out when its
\* normalized form is empty, when its branch is "skip", and when it was
\* seen, that is when an earlier candidate has the same normalized form (a
\* "skip" puts nothing in seen, and the equal candidate skips as well).
\* The result holds the URLs put in seen, in order, each with its list.
Accepted(normalized, kind) ==
    LET n == Len(normalized)
        all == [i \in 1..n |->
                  [url |-> normalized[i], kind |-> kind[i],
                   new |-> /\ normalized[i] # <<>>
                           /\ kind[i] # "skip"
                           /\ \A j \in 1..(i - 1) : normalized[j] # normalized[i]]]
    IN  SelectSeq(all, LAMBDA e : e.new)

\* The list of one kind, in the order of acceptance.
OfKind(out, kind) ==
    LET sel == SelectSeq(out, LAMBDA e : e.kind = kind)
    IN  [j \in 1..Len(sel) |-> sel[j].url]

\* The three lists _classify_urls returns.
Lists(out) ==
    [tse |-> OfKind(out, "tse"), tre |-> OfKind(out, "tre"),
     geral |-> OfKind(out, "geral")]

\* The branch _classify_urls of the viaAPI variant takes for a normalized
\* URL: "skip" leaves it out of every list and of seen.
KindAPI(normalized) ==
    LET domain == _domain_from_url(normalized)
    IN  IF normalized = <<>> \/ domain = <<>> THEN "skip"
        ELSE IF _is_tse_domain(domain) THEN "tse"
        ELSE IF _is_tre_domain(domain) THEN "tre"
        ELSE IF _is_general_domain(domain) THEN "geral"
        ELSE "skip"

_classify_urls_API(urls) ==
    Lists(Accepted([i \in 1..Len(urls) |-> _normalize_url(urls[i])],
                   [i \in 1..Len(urls) |-> KindAPI(_normalize_url(urls[i]))]))

\* The branch _classify_urls of the WEB variant takes: the TSE domain by
\* equality or dotted suffix, the TRE pattern, a listed domain by plain
\* suffix, else general unless "jus.br" occurs in the domain; "none" puts
\* the URL in seen and in no list.
KindWEB(normalized) ==
    LET domain == _domain_from_url(normalized)
    IN  IF normalized = <<>> \/ domain = <<>> THEN "skip"
        ELSE IF domain = TSE_DOMAIN \/ endswith(domain, <<".">> \o TSE_DOMAIN)
        THEN "tse"
        ELSE IF _is_tre_domain(domain) THEN "tre"
        ELSE IF \E b \in 1..Len(GENERAL_DOMAINS_WEB) :
                    endswith(domain, GENERAL_DOMAINS_WEB[b])
        THEN "geral"
        ELSE IF ~contains(domain, Dom(<<"jus", "br">>)) THEN "geral"
        ELSE "none"

_classify_urls_WEB(urls) ==
    Lists(Accepted([i \in 1..Len(urls) |-> _normalize_url(urls[i])],
                   [i \in 1..Len(urls) |-> KindWEB(_normalize_url(urls[i]))]))

\* The str elements of a JSON list, in order.
StrItems(items) ==
    LET sel == SelectSeq(items, LAMBDA e : e.tag = "str")
    IN  [j \in 1..Len(sel) |-> sel[j].items]

\* _urls_from_value (viaAPI): the strings of a list, the URL tokens of a
\* string, nothing for any other value.
_urls_from_value(value) ==
    IF value.tag = "list" THEN StrItems(value.items)
    ELSE IF value.tag = "str" THEN URL_RE_findall(value.items, 1)
    ELSE <<>>

\* The candidates of the keys NEWS_COLUMNS[k..] of the dict members.
RECURSIVE KeyUrlsAPI(_, _)
KeyUrlsAPI(members, k) ==
    IF k > Len(NEWS_COLUMNS) THEN <<>>
    ELSE _urls_from_value(DictGet(members, NEWS_COLUMNS[k], Len(members)))
         \o KeyUrlsAPI(members, k + 1)

\* The URL tokens of the text taken whatever the keys gave.
ScanAlways(urls, text) == urls \o URL_RE_findall(text, 1)

\* text if not urls: urls = URL_RE.findall(text)
OrFound(urls, text) == IF urls = <<>> THEN URL_RE_findall(text, 1) ELSE urls

\* _combine_urls_from_response for the value data that _extract_json gave;
\* raised: data.get on a value that is no dict (AttributeError).
CombineData(data, text) ==
    IF data.tag # "obj" THEN [raised |-> TRUE, urls |-> NoUrls]
    ELSE [raised |-> FALSE,
          urls |-> _classify_urls_API(OrFound(KeyUrlsAPI(data.items, 1), text))]

_combine_urls_from_response(text) == CombineData(_extract_json(text), text)

\* The loop of _process_response_text (WEB): list values only.
RECURSIVE KeyUrlsWEB(_, _)
KeyUrlsWEB(members, k) ==
    IF k > Len(NEWS_COLUMNS) THEN <<>>
    ELSE LET val == DictGet(members, NEWS_COLUMNS[k], Len(members))
         IN  (IF val.tag = "list" THEN StrItems(val.items) ELSE <<>>)
             \o KeyUrlsWEB(members, k + 1)

\* ", ".join(urls); also _join_urls, which returns "" for no URL.
_join_urls(urls) == join(<<",", " ">>, urls)

\* The return value of _process_response_text for the three lists.
Joined(lists) ==
    [raised |-> FALSE, tse |-> _join_urls(lists.tse),
     tre |-> _join_urls(lists.tre), geral |-> lists.geral]

\* _process_response_text for the value data that _extract_json gave;
\* raised as in _combine_urls_from_response.
ProcessData(data, text) ==
    IF data.tag # "obj"
    THEN [raised |-> TRUE, tse |-> <<>>, tre |-> <<>>, geral |-> <<>>]
    ELSE Joined(_classify_urls_WEB(OrFound(KeyUrlsWEB(data.items, 1), text)))

\* _process_response_text (WEB): the two joined columns and the list of
\* general links.
_process_response_text(text) == ProcessData(_extract_json(text), text)

----------------------------------------------------------------------------
(* Output file and the buffered file object.                               *)
(* A file is [exists, lines]; a line is [cells, st, eol]: the cell values  *)
(* of one CSV row (the first line is the header, its cells the column      *)
(* names), st "ok" when the row's text is whole, "cut" when only a strict  *)
(* prefix of it is in the file, "glued" when later data was appended to a  *)
(* line that had no terminator; eol tells whether the line terminator is   *)
(* in the file.                                                            *)

NoFile == [exists |-> FALSE, lines |-> <<>>]

EmptyFile == [exists |-> TRUE, lines |-> <<>>]

Line(cells) == [cells |-> cells, st |-> "ok", eol |-> TRUE]

\* The header row csv.DictWriter.writeheader writes for fieldnames.
HeaderCells(fields) == [i \in 1..Len(fields) |-> <<fields[i]>>]

\* The row csv.DictWriter.writerow writes: the values in fieldnames order,
\* "" for a key the row lacks.
RowCells(row, fields) == [i \in 1..Len(fields) |-> get(row, fields[i])]

\* The file has bytes after its last line terminator.
OpenTail(lines) == lines # <<>> /\ ~lines[Len(lines)].eol

\* The text of one line reaching the file: all of it ("whole"), all but its
\* terminator ("noeol") or a strict prefix ("cut").  After a tail without
\* terminator the text lands on that line.
WriteLine(lines, cells, part) ==
    LET n == Len(lines)
        st == IF part = "cut" THEN "cut" ELSE "ok"
    IN  IF OpenTail(lines)
        THEN [lines EXCEPT ![n] = [cells |-> @.cells, st |-> "glued",
                                   eol |-> part = "whole"]]
        ELSE Append(lines, [cells |-> cells, st |-> st, eol |-> part = "whole"])

\* The first k buffered lines reach the file whole.
RECURSIVE WriteWhole(_, _, _)
WriteWhole(lines, buf, k) ==
    IF k = 0 THEN lines
    ELSE WriteWhole(WriteLine(lines, Head(buf), "whole"), Tail(buf), k - 1)

\* file.close() / file.flush(): everything buffered reaches the file.
FlushAll(lines, buf) == WriteWhole(lines, buf, Len(buf))

\* What a process that dies leaves of its buffered lines in the file: the
\* first k, and of the next one nothing ("none"), all but the terminator or
\* a strict prefix.  The buffered writer hands its buffer to the file each
\* time a write fills it, at byte counts no line boundary decides.
WriteSome(lines, buf, k, part) ==
    IF part = "none" THEN WriteWhole(lines, buf, k)
    ELSE WriteLine(WriteWhole(lines, buf, k), buf[k + 1], part)

\* The rows csv.reader yields for the file: one per line, whatever its state.
CsvRows(file) == file.lines

\* What reads back of a line that is not whole: not what was written.
Damaged == << <<"<damaged>">> >>

\* A reader that counts the header among the rows.
ReadCountingHeader(file) ==
    IF ~file.exists \/ CsvRows(file) = <<>> THEN [header |-> <<>>, count |-> 0]
    ELSE [header |-> IF file.lines[1].st = "ok" THEN file.lines[1].cells
                     ELSE Damaged,
          count |-> Len(CsvRows(file))]

\* _read_existing_output: the header row and the number of rows after it.
_read_existing_output(file) ==
    IF ~file.exists \/ CsvRows(file) = <<>> THEN [header |-> <<>>, count |-> 0]
    ELSE [header |-> IF file.lines[1].st = "ok" THEN file.lines[1].cells
                     ELSE Damaged,
          count |-> Len(CsvRows(file)) - 1]

----------------------------------------------------------------------------
(* Inputs of the model.                                                    *)

\* A JSON string literal.
Q(s) == <<QUOTE>> \o s \o <<QUOTE>>

URL_TSE_A == <<"https://">> \o TSE_DOMAIN \o <<"/", "a">>
URL_FOLHA_B == Dom(<<"folha", "uol", "com", "br">>) \o <<"/", "b">>
URL_TRE_C == <<"http://", "www", ".", "tre-sp", ".", "jus", ".", "br", "/", "c">>
URL_RANDOM == <<"https://", "random", ".", "com", "/", "x">>

\* The fenced response of the concrete scenario: one TSE link, no TRE link,
\* one Folha link without scheme.
TEXT_SCENARIO ==
    <<FENCE, "json", NL, "{">> \o Q(<<"noticia_TSE">>) \o <<":", " ", "[">>
    \o Q(URL_TSE_A) \o <<"]", ",", " ">> \o Q(<<"noticia_TRE">>)
    \o <<":", " ", "[", "]", ",", " ">> \o Q(<<"noticia_geral">>)
    \o <<":", " ", "[">> \o Q(URL_FOLHA_B) \o <<"]", "}", NL, FENCE>>

\* Valid JSON whose top-level value is a list.
TEXT_LIST == <<"[", "]">>

TEXT_NULL == <<"null">>

TEXT_NUMBER == <<"42">>

\* An object with a TRE link only.
TEXT_TRE == <<"{">> \o Q(<<"noticia_TRE">>) \o <<":", "[">> \o Q(URL_TRE_C) \o <<"]", "}">>

\* No JSON at all, a URL in prose.
TEXT_PROSE == <<"see", " ">> \o URL_RANDOM \o <<" ", "thanks">>

\* What client.models.generate_content does: it returns a response
\* (text, and the part texts of its candidates) or raises.
Response(text, parts) == [kind |-> "response", code |-> 0, text |-> text, parts |-> parts]
Raises(kind, code) == [kind |-> kind, code |-> code, text |-> <<>>, parts |-> <<>>]

\* The outcomes of a client call in a run of main: a response with links, a
\* response that is JSON but no object, an empty response, an API error.
MainOutcomes ==
    { Response(TEXT_SCENARIO, <<>>), Response(TEXT_LIST, <<>>),
      Response(<<>>, <<>>), Raises("ClientError", 429) }

\* The outcomes of a client call when the wrapper is called on its own.
ApiOutcomes ==
    MainOutcomes \cup
    { Response(<<>>, <<TEXT_TRE>>), Response(<<" ", NL>>, <<>>),
      Raises("ClientError", 403), Raises("ServerError", 500),
      Raises("Exception", 0) }

\* A URL as a model response lists it: the parts of the URL, and what
\* stands around it inside the JSON string (whitespace, quotes,
\* punctuation).
Item(pre, scheme, www, host, port, tail, post) ==
    [pre |-> pre, scheme |-> scheme, user |-> <<>>, www |-> www, host |-> host,
     port |-> port, tail |-> tail, post |-> post]

ItemText(p) ==
    p.pre \o p.scheme \o p.user \o p.www \o p.host \o p.port \o p.tail \o p.post

\* The lists a response of the scenario holds under noticia_TSE: none, the
\* TSE link, the TSE link with a space before and a period after it and a
\* second one in capitals with www., a TSE link with a port.
ScenarioTse ==
    { <<>>,
      <<Item(<<>>, <<"https://">>, <<>>, TSE_DOMAIN, <<>>, <<"/", "a">>, <<>>)>>,
      <<Item(<<" ">>, <<"https://">>, <<>>, TSE_DOMAIN, <<>>, <<"/", "a">>, <<".">>),
        Item(<<>>, <<"HTTP://">>, <<"WWW", ".">>, <<"TSE", ".", "JUS", ".", "BR">>,
             <<>>, <<"/", "n">>, <<>>)>>,
      <<Item(<<>>, <<"https://">>, <<>>, TSE_DOMAIN, <<":", "8080">>, <<"/", "a">>, <<>>)>> }

\* Under noticia_TRE: none, a TRE link, a TRE link without scheme and with
\* a semicolon after it, a TSE link under the wrong key.
ScenarioTre ==
    { <<>>,
      <<Item(<<>>, <<"http://">>, <<"www", ".">>, <<"tre-sp", ".", "jus", ".", "br">>,
             <<>>, <<"/", "c">>, <<>>)>>,
      <<Item(<<>>, <<>>, <<>>, <<"tre-rj", ".", "jus", ".", "br">>, <<>>,
             <<"/", "d">>, <<";">>)>>,
      <<Item(<<>>, <<"https://">>, <<>>, TSE_DOMAIN, <<>>, <<"/", "z">>, <<>>)>> }

\* Under noticia_geral: none, the Folha link without scheme, a Folha link,
\* a link of an unlisted site and a listed link in single quotes, the TSE
\* link once more.
ScenarioGeral ==
    { <<>>,
      <<Item(<<>>, <<>>, <<>>, <<"folha", ".", "uol", ".", "com", ".", "br">>, <<>>,
             <<"/", "b">>, <<>>)>>,
      <<Item(<<>>, <<"https://">>, <<>>, <<"folha", ".", "uol", ".", "com", ".", "br">>,
             <<>>, <<"/", "b">>, <<>>),
        Item(<<>>, <<"https://">>, <<>>, <<"random", ".", "com">>, <<>>,
             <<"/", "x">>, <<>>),
        Item(<<" ", "'">>, <<"https://">>, <<>>, <<"sub", ".", "cnn", ".", "com">>,
             <<>>, <<>>, <<"'", ",">>)>>,
      <<Item(<<>>, <<"https://">>, <<>>, TSE_DOMAIN, <<>>, <<"/", "a">>, <<>>)>> }

\* The JSON list of the listed URLs.
ListText(items) ==
    <<"[">> \o join(<<",", " ">>, [i \in 1..Len(items) |-> Q(ItemText(items[i]))])
    \o <<"]">>

\* The fenced response that lists the URLs under the three keys.
ScenarioText(fence, tse, tre, geral) ==
    fence \o <<"{">> \o Q(<<"noticia_TSE">>) \o <<":", " ">> \o ListText(tse)
    \o <<",", " ">> \o Q(<<"noticia_TRE">>) \o <<":", " ">> \o ListText(tre)
    \o <<",", " ">> \o Q(<<"noticia_geral">>) \o <<":", " ">> \o ListText(geral)
    \o <<"}", NL, FENCE>>

\* The responses of the scenario, each with what it lists.
ScenarioOutcomes ==
    { [kind |-> "response", code |-> 0, parts |-> <<>>,
       text |-> ScenarioText(fence, tse, tre, geral),
       listed |-> [tse |-> tse, tre |-> tre, geral |-> geral]] :
        fence \in {<<FENCE, "json", NL>>, <<FENCE, NL>>},
        tse \in ScenarioTse, tre \in ScenarioTre, geral \in ScenarioGeral }

\* Input rows: a record with blank context fields (empty, whitespace-only,
\* and every other context column missing), two records with the same
\* context and different other columns, a record with another context and an
\* embedded newline.
ROW_BLANK == [id |-> <<"1">>, tema |-> <<>>, partes |-> <<" ", "\t">>]
ROW_A == [id |-> <<"2">>, tema |-> <<"X">>, partes |-> <<>>]
ROW_A2 == [id |-> <<"3">>, tema |-> <<" ", "X">>, partes |-> <<NL>>]
ROW_B == [id |-> <<"4">>, tema |-> <<"X">>, partes |-> <<"P", NL, "Q">>]

RowPool == {ROW_BLANK, ROW_A, ROW_A2, ROW_B}

FIELDNAMES == <<"id", "tema", "partes">>

\* An output file left by something else: another header, one row.
ForeignFile ==
    [exists |-> TRUE,
     lines |-> << Line(HeaderCells(<<"id", "noticia_geral">>)),
                  Line(<< <<"9">>, <<>> >>) >>]

\* Largest number of input rows.
MaxRows == 2

\* Largest number of runs of the program on the same files.
MaxRuns == 2

\* Largest --limit.
MaxLimit == 1

\* Largest --max-retries.
MaxRetries == 2

RECURSIVE SeqsUpTo(_, _)
SeqsUpTo(S, n) ==
    IF n = 0 THEN {<<>>}
    ELSE LET shorter == SeqsUpTo(S, n - 1)
         IN  shorter \cup {Append(q, x) : q \in {r \in shorter : Len(r) = n - 1}, x \in S}

InputTables == SeqsUpTo(RowPool, MaxRows)

----------------------------------------------------------------------------
(* SESSOES_TSE_noticias_viaAPI.py: main and _call_gemini_with_web_search.  *)
(* api.pc: "idle" before the first run; "loop" at the head of the for loop *)
(* of main; "wrapper" at the head of the retry loop; "returned"/"raised"   *)
(* when the wrapper has returned a text / raised RuntimeError; "done",     *)
(* "aborted" (SystemExit) and "killed" when the process is gone.           *)
(* api.disk is the output file as the file system has it, api.buf what the *)
(* file object of the run was given since it was opened.                   *)
(* api.trace lists the records the current run has written, with the way   *)
(* each was handled.                                                       *)

\* The variables the viaAPI program leaves alone.
ApiFrame == UNCHANGED web

ApiRunning == {"loop", "wrapper", "returned", "raised"}

ApiStopped == {"idle", "done", "aborted", "killed"}

\* The news columns appended in the opposite order.
AddReversed(fields, cols, i) ==
    fields \o [k \in 1..(Len(cols) - i + 1) |-> cols[Len(cols) + 1 - k]]

\* main, lines 348-351: the input header plus the news columns it lacks.
RECURSIVE AddMissing(_, _, _)
AddMissing(fields, cols, i) ==
    IF i > Len(cols) THEN fields
    ELSE IF cols[i] \in ToSet(fields) THEN AddMissing(fields, cols, i + 1)
    ELSE AddMissing(Append(fields, cols[i]), cols, i + 1)

\* A total that ignores --limit.
TotalWithoutLimit(rows, limit) == Len(rows)

\* main, line 374.
Total(rows, limit) ==
    IF limit <= 0 THEN Len(rows)
    ELSE IF Len(rows) < limit THEN Len(rows) ELSE limit

\* _output_text_from_response: response.text stripped, else the part texts
\* of the first candidate that has some, joined by newlines and stripped.
_output_text_from_response(response) ==
    IF response.text # <<>> THEN strip(response.text)
    ELSE IF response.parts # <<>> THEN strip(join(<<NL>>, response.parts))
    ELSE <<>>

\* 2 ** attempt
RECURSIVE Pow2(_)
Pow2(n) == IF n = 0 THEN 1 ELSE 2 * Pow2(n - 1)

\* last_err = None
NoError == [kind |-> "None", code |-> 0]

\* The locals of a run that has not opened the output file.
ApiFresh(a, resume, limit) ==
    [a EXCEPT !.run = @ + 1, !.resume = resume, !.limit = limit,
              !.output_fields = <<>>, !.processed_rows = 0,
              !.write_mode = "w", !.total = 0, !.idx = 0, !.cache = <<>>,
              !.buf = <<>>, !.context = <<>>, !.attempt = 0,
              !.outcomes = <<>>, !.sleeps = <<>>, !.last_err = NoError,
              !.ret = <<>>, !.trace = <<>>]

\* main, lines 333-377: from the command line to the head of the loop.
ApiStart(resume, limit) ==
    /\ api.pc \in ApiStopped
    /\ api.run < MaxRuns
    /\ LET a == ApiFresh(api, resume, limit)
           output_fields == AddMissing(api.fieldnames, NEWS_COLUMNS, 1)
           existing == IF resume /\ api.disk.exists
                       THEN _read_existing_output(api.disk)
                       ELSE [header |-> <<>>, count |-> 0]
           write_mode == IF existing.header # <<>> THEN "a" ELSE "w"
           opened == IF write_mode = "w" THEN EmptyFile ELSE api.disk
           buf == IF write_mode = "w" THEN <<HeaderCells(output_fields)>> ELSE <<>>
           total == Total(api.rows, limit)
       IN  IF api.rows = <<>>
           THEN api' = [a EXCEPT !.pc = "done"]
           ELSE IF existing.header # <<>> /\ existing.header # HeaderCells(output_fields)
           THEN api' = [a EXCEPT !.pc = "aborted", !.output_fields = output_fields]
           ELSE IF existing.count >= total
           THEN api' = [a EXCEPT !.pc = "done", !.output_fields = output_fields,
                                 !.processed_rows = existing.count,
                                 !.write_mode = write_mode, !.total = total,
                                 !.disk = [exists |-> TRUE,
                                           lines |-> FlushAll(opened.lines, buf)]]
           ELSE api' = [a EXCEPT !.pc = "loop", !.output_fields = output_fields,
                                 !.processed_rows = existing.count,
                                 !.write_mode = write_mode, !.total = total,
                                 !.disk = opened, !.buf = buf, !.idx = 1]
    /\ ApiFrame

\* The record the loop is at.
ApiRow == api.rows[api.idx]

\* main, line 382: _build_context(row) for each record an input can hold
\* (the function's graph over these records, computed once).
ApiContext == [row \in RowPool |-> _build_context(row, MAX_LEN_API)]

ApiAtRecord == api.pc = "loop" /\ api.idx <= api.total

\* A row that holds the three news columns and nothing of the input.
SetNewsOnly(row, tse, tre, geral) ==
    [c \in ToSet(NEWS_COLUMNS) |->
        IF c = "noticia_TSE" THEN tse
        ELSE IF c = "noticia_TRE" THEN tre
        ELSE geral]

\* row[...] = ... for the three news columns.
SetNews(row, tse, tre, geral) ==
    [c \in DOMAIN row \cup ToSet(NEWS_COLUMNS) |->
        IF c = "noticia_TSE" THEN tse
        ELSE IF c = "noticia_TRE" THEN tre
        ELSE IF c = "noticia_geral" THEN geral
        ELSE row[c]]

\* main, lines 409-412 (and 384-387): the news columns set, the row handed
\* to the writer, on to the next record.
ApiWritten(a, urls, via) ==
    LET row == SetNews(a.rows[a.idx], _join_urls(urls.tse), _join_urls(urls.tre),
                       _join_urls(urls.geral))
        cells == RowCells(row, a.output_fields)
    IN  [a EXCEPT !.pc = "loop", !.idx = @ + 1, !.buf = Append(@, cells),
                  !.trace = Append(@, [idx |-> a.idx, via |-> via, cells |-> cells]),
                  !.context = <<>>, !.attempt = 0, !.outcomes = <<>>,
                  !.sleeps = <<>>, !.last_err = NoError, !.ret = <<>>]

\* main, lines 380-381: a record the output file already holds.
ApiSkip ==
    /\ ApiAtRecord
    /\ api.idx <= api.processed_rows
    /\ api' = [api EXCEPT !.idx = @ + 1]
    /\ ApiFrame

\* main, lines 382-388: an empty context, no request.
ApiNoContext ==
    /\ ApiAtRecord
    /\ api.idx > api.processed_rows
    /\ ApiContext[ApiRow] = <<>>
    /\ api' = ApiWritten(api, NoUrls, "NoContext")
    /\ ApiFrame

\* main, lines 390-392: the context was answered earlier in this run.
ApiCached ==
    /\ ApiAtRecord
    /\ api.idx > api.processed_rows
    /\ \E context \in {ApiContext[ApiRow]} :
           /\ context # <<>>
           /\ context \in DOMAIN api.cache
           /\ api' = ApiWritten(api, api.cache[context], "Cached")
    /\ ApiFrame

\* main, lines 393-402: the wrapper is called.
ApiQuery ==
    /\ ApiAtRecord
    /\ api.idx > api.processed_rows
    /\ \E context \in {ApiContext[ApiRow]} :
           /\ context # <<>>
           /\ context \notin DOMAIN api.cache
           /\ api' = [api EXCEPT !.pc = "wrapper", !.context = context,
                                 !.attempt = 0, !.outcomes = <<>>, !.sleeps = <<>>,
                                 !.last_err = NoError]
    /\ ApiFrame

\* The outcomes the client may give for the context: any one, or, when the
\* client is deterministic, the one it gave for that context before.
ApiMayGive(a, o) ==
    (a.det /\ a.context \in DOMAIN a.oracle) => o = a.oracle[a.context]

\* _call_gemini_with_web_search, lines 144-170: one pass of the retry loop.
ApiAttempt(o) ==
    /\ api.pc = "wrapper"
    /\ api.attempt < api.max_retries
    /\ ApiMayGive(api, o)
    /\ LET text == _output_text_from_response(o)
           called == [api EXCEPT !.outcomes = Append(@, o),
                                 !.oracle = IF ~api.det \/ api.context \in DOMAIN @
                                            THEN @
                                            ELSE @ @@ (api.context :> o)]
           jitter == o.kind \in {"ClientError", "ServerError"}
           err == IF o.kind = "response" THEN [kind |-> "ValueError", code |-> 0]
                  ELSE [kind |-> o.kind, code |-> o.code]
       IN  IF o.kind = "response" /\ text # <<>>
           THEN api' = [called EXCEPT !.pc = "returned", !.ret = text]
           ELSE api' = [called EXCEPT
                          !.attempt = @ + 1,
                          !.last_err = err,
                          !.sleeps = Append(@, [base |-> Pow2(api.attempt),
                                                jitter |-> jitter])]
    /\ ApiFrame

\* A wrapper that gives up one attempt early.
ApiExhaustedEarly ==
    /\ api.pc = "wrapper"
    /\ api.attempt + 1 >= api.max_retries
    /\ api' = [api EXCEPT !.pc = "raised"]
    /\ ApiFrame

\* _call_gemini_with_web_search, line 171: the retries are used up.
ApiExhausted ==
    /\ api.pc = "wrapper"
    /\ api.attempt >= api.max_retries
    /\ api' = [api EXCEPT !.pc = "raised"]
    /\ ApiFrame

\* A main that never stores an answer in the cache.
ApiCombinedUncached(a, r) ==
    IF r.raised THEN ApiWritten(a, NoUrls, "Failed")
    ELSE ApiWritten(a, r.urls, "Queried")

\* main, lines 403-412, for the result r of _combine_urls_from_response.
ApiCombined(a, r) ==
    IF r.raised THEN ApiWritten(a, NoUrls, "Failed")
    ELSE ApiWritten([a EXCEPT !.cache = @ @@ (a.context :> r.urls)], r.urls, "Queried")

\* _combine_urls_from_response on each text the wrapper can return in a run
\* of main (the function's graph over these texts, computed once).
CombinedUrls ==
    [text \in {_output_text_from_response(o) : o \in MainOutcomes \cup ScenarioOutcomes} |->
        _combine_urls_from_response(text)]

\* main, lines 403-412: the text is classified and cached; an exception of
\* _combine_urls_from_response is caught like one of the wrapper.
ApiHandleReturn ==
    /\ api.pc = "returned"
    /\ api.mode = "main"
    /\ api' = ApiCombined(api, CombinedUrls[api.ret])
    /\ ApiFrame

\* main, lines 405-412: the wrapper raised; the record is written empty.
ApiHandleRaise ==
    /\ api.pc = "raised"
    /\ api.mode = "main"
    /\ api' = ApiWritten(api, NoUrls, "Failed")
    /\ ApiFrame

\* main, lines 369 and 419: the loop is over, the with block closes the file.
ApiFinish ==
    /\ api.pc = "loop"
    /\ api.idx > api.total
    /\ api' = [api EXCEPT !.pc = "done", !.buf = <<>>,
                          !.disk.lines = FlushAll(@, api.buf)]
    /\ ApiFrame

\* The process is killed: of what the file object was given, the file keeps
\* what the buffered writer had handed over, see WriteSome.
ApiKill(k, part) ==
    /\ api.pc \in ApiRunning
    /\ api.mode = "main"
    /\ k <= Len(api.buf)
    /\ part # "none" => k < Len(api.buf)
    /\ api' = [api EXCEPT !.pc = "killed", !.buf = <<>>,
                          !.disk.lines = WriteSome(@, api.buf, k, part)]
    /\ ApiFrame

\* Nothing of the WEB program runs.
WebOff == [pc |-> "off"]

\* The state of the viaAPI program before main is entered; mode "main" for
\* runs of main, "wrapper" for calls of the retry wrapper on its own.
ApiState(mode, rows, disk, max_retries, det) ==
    [mode |-> mode, fieldnames |-> FIELDNAMES, rows |-> rows,
     max_retries |-> max_retries, det |-> det, oracle |-> <<>>,
     disk |-> disk, run |-> 0, pc |-> "idle", resume |-> FALSE,
     limit |-> 0, output_fields |-> <<>>,
     processed_rows |-> 0, write_mode |-> "w", total |-> 0,
     idx |-> 0, cache |-> <<>>, buf |-> <<>>,
     context |-> <<>>, attempt |-> 0, outcomes |-> <<>>,
     sleeps |-> <<>>, last_err |-> NoError, ret |-> <<>>, trace |-> <<>>]

InitAPI ==
    /\ \E rows \in InputTables, disk \in {NoFile, ForeignFile},
          max_retries \in 1..MaxRetries, det \in BOOLEAN :
           api = ApiState("main", rows, disk, max_retries, det)
    /\ web = WebOff

NextAPI ==
    \/ \E resume \in BOOLEAN, limit \in 0..MaxLimit : ApiStart(resume, limit)
    \/ ApiSkip
    \/ ApiNoContext
    \/ ApiCached
    \/ ApiQuery
    \/ \E o \in MainOutcomes : ApiAttempt(o)
    \/ ApiExhausted
    \/ ApiHandleReturn
    \/ ApiHandleRaise
    \/ ApiFinish
    \/ \E k \in 0..(MaxRows + 1), part \in {"none", "noeol", "cut"} : ApiKill(k, part)

SpecAPI == InitAPI /\ [][NextAPI]_vars

----------------------------------------------------------------------------
(* SESSOES_TSE_notícias_WEB.py: main, its retry wrapper and the header     *)
(* rewrite.                                                                *)
(* web.pc: "idle" before the first run; "start_rewrite" and "rewrite" when *)
(* _rewrite_output_file has written the temporary file and not yet         *)
(* replaced the output file (at startup / inside the loop); "count" before *)
(* the lines of the output file are counted; "loop" at the head of the for *)
(* loop; "wrapper" at the head of the retry loop; "returned" when the      *)
(* wrapper has returned; "classified" when the links of the record are     *)
(* known; "write" before writer.writerow; "written" between               *)
(* writerow and f.flush; "sleep" in time.sleep; "done", "crashed" (an      *)
(* exception left main) and "killed" when the process is gone.             *)
(* web.idx counts from 0, as enumerate(rows) does.                         *)

\* The variables the WEB program leaves alone.
WebFrame == UNCHANGED api

WebRunning ==
    {"start_rewrite", "count", "loop", "wrapper", "returned", "classified",
     "rewrite", "write", "written", "sleep"}

WebStopped == {"idle", "done", "crashed", "killed"}

\* main, line 364: range(1, 51), the extra columns reserved in the header.
RESERVED == 50

\* f"noticia_geral_{i}"
GeralCol(i) == "noticia_geral_" \o ToString(i)

\* Number of general links in the largest response.
ManyLinks == 52

\* re.match(r"^noticia_geral_\d+$", key), for the keys that occur.
IsGeralN(key) == \E i \in 0..(RESERVED + ManyLinks) : key = GeralCol(i)

\* The elements of a list of n distinct general links: for each a quote, the
\* scheme, a host of its own, a quote, and a comma before the next.
ManyUrls(n) ==
    [k \in 1..(5 * n - 1) |->
        CASE (k - 1) % 5 = 0 -> QUOTE
          [] (k - 1) % 5 = 1 -> "https://"
          [] (k - 1) % 5 = 2 -> "site" \o ToString(((k - 1) \div 5) + 1)
          [] (k - 1) % 5 = 3 -> QUOTE
          [] OTHER -> ","]

\* An object with ManyLinks distinct general links.
TEXT_MANY ==
    <<"{">> \o Q(<<"noticia_geral">>) \o <<":", "[">> \o ManyUrls(ManyLinks)
    \o <<"]", "}">>

\* The text the WEB wrapper returns when it has no text to return.
SENTINEL == <<"{", "}">>

\* The outcomes of a client call in a run of the WEB main.
WebOutcomes ==
    { Response(TEXT_SCENARIO, <<>>), Response(TEXT_LIST, <<>>),
      Response(TEXT_MANY, <<>>), Response(<<>>, <<>>),
      Raises("ClientError", 429), Raises("Exception", 0) }

\* An output file written before the extra columns were reserved: the input
\* header plus the news columns, and the first input row with no links.
LegacyFile(rows) ==
    LET header == AddMissing(FIELDNAMES, NEWS_COLUMNS, 1)
    IN  [exists |-> TRUE,
         lines |-> <<Line(HeaderCells(header))>> \o
                   (IF rows = <<>> THEN <<>>
                    ELSE <<Line(RowCells(rows[1], header))>>)]

\* The line breaks inside the cells of a row: each "\n", and each "\r" no
\* "\n" follows.
CellBreaks(cells) ==
    Cardinality(UNION {{<<c, i>> : i \in {j \in 1..Len(cells[c]) :
                            \/ cells[c][j] = NL
                            \/ /\ cells[c][j] = "\r"
                               /\ (j = Len(cells[c]) \/ cells[c][j + 1] # NL)}} :
                       c \in 1..Len(cells)})

\* len(f.readlines()): the lines of the text of the file; a row holds one
\* more line for each line break in its cells.
RECURSIVE readlines(_, _)
readlines(lines, i) ==
    IF i > Len(lines) THEN 0
    ELSE 1 + CellBreaks(lines[i].cells) + readlines(lines, i + 1)

\* next(csv.reader(f), None): the first row, None (here <<>>) without one.
FirstRow(file) ==
    IF ~file.exists \/ file.lines = <<>> THEN <<>> ELSE file.lines[1].cells

\* The column name a header cell holds.
ColName(cell) == IF cell = <<>> THEN "" ELSE cell[1]

ColNames(cells) == [i \in 1..Len(cells) |-> ColName(cells[i])]

\* main, lines 362-368: the reserved columns the header lacks are added.
RECURSIVE AddReserved(_, _)
AddReserved(fields, i) ==
    IF i > RESERVED THEN fields
    ELSE IF GeralCol(i) \in ToSet(fields) THEN AddReserved(fields, i + 1)
    ELSE AddReserved(Append(fields, GeralCol(i)), i + 1)

\* The row csv.DictReader yields for the cells under the header names: the
\* last cell under a name wins, a missing cell reads as None.
RECURSIVE LastAt(_, _, _)
LastAt(names, name, i) ==
    IF i = 0 THEN 0 ELSE IF names[i] = name THEN i ELSE LastAt(names, name, i - 1)

DictRow(names, cells) ==
    [c \in ToSet(names) |->
        LET i == LastAt(names, c, Len(names))
        IN  IF i <= Len(cells) THEN cells[i] ELSE <<>>]

\* _rewrite_output_file, lines 251-259: the lines of the temporary file.
\* raised: a row with more cells than the header has a key the writer
\* rejects (ValueError).
_rewrite_output_file(file, fieldnames) ==
    LET names == ColNames(FirstRow(file))
        body == [i \in 1..(Len(file.lines) - 1) |->
                    Line(RowCells(DictRow(names, file.lines[i + 1].cells), fieldnames))]
    IN  [raised |-> \E i \in 2..Len(file.lines) :
                        Len(file.lines[i].cells) > Len(names),
         lines |-> <<Line(HeaderCells(fieldnames))>> \o body]

\* An _apply_geral_links that keeps the first link only.
ApplyFirstLinkOnly(row, geral_links) ==
    LET kept == {k \in DOMAIN row : ~IsGeralN(k)}
    IN  [row |-> [c \in kept \cup {"noticia_geral"} |->
                    IF c = "noticia_geral"
                    THEN (IF geral_links = <<>> THEN <<>> ELSE geral_links[1])
                    ELSE row[c]],
         new_columns |-> <<>>]

\* _apply_geral_links: the row with its general-link columns set, and the
\* names of the numbered columns used.
_apply_geral_links(row, geral_links) ==
    LET kept == {k \in DOMAIN row : ~IsGeralN(k)}
        n == Len(geral_links)
        new_columns == [i \in 1..(IF n = 0 THEN 0 ELSE n - 1) |-> GeralCol(i)]
    IN  [row |-> [c \in kept \cup {"noticia_geral"} \cup ToSet(new_columns) |->
                    IF c = "noticia_geral"
                    THEN (IF n = 0 THEN <<>> ELSE geral_links[1])
                    ELSE IF c \in ToSet(new_columns)
                    THEN geral_links[1 + (CHOOSE i \in 1..(n - 1) : GeralCol(i) = c)]
                    ELSE row[c]],
         new_columns |-> new_columns]

\* The locals of a run before the output file is looked at.
WebFresh(w, limit) ==
    [w EXCEPT !.run = @ + 1, !.limit = limit, !.output_fields = <<>>,
              !.processed_count = 0, !.write_mode = "w",
              !.total_to_process = 0, !.idx = 0, !.buf = <<>>,
              !.attempt = 0, !.outcomes = <<>>, !.sleeps = <<>>,
              !.raw_text = <<>>, !.noticia_tse = <<>>, !.noticia_tre = <<>>,
              !.noticia_geral_links = <<>>, !.row = <<>>, !.via = "",
              !.trace = <<>>]

\* main, lines 341-371: the input is read, the header of the output file is
\* settled, and an existing file whose header grew is rewritten into the
\* temporary file.
WebBegin(limit) ==
    /\ web.pc \in WebStopped
    /\ web.run < MaxRuns
    /\ LET w == WebFresh(web, limit)
           existing_header == FirstRow(web.disk)
           base == IF existing_header # <<>> THEN ColNames(existing_header)
                   ELSE web.fieldnames
           output_fields ==
               AddReserved(AddMissing(AddMissing(base, web.fieldnames, 1),
                                      NEWS_COLUMNS, 1), 1)
           header_changed == output_fields # base
           r == _rewrite_output_file(web.disk, output_fields)
       IN  IF existing_header # <<>> /\ header_changed
           THEN IF r.raised
                THEN web' = [w EXCEPT !.pc = "crashed", !.output_fields = output_fields]
                ELSE web' = [w EXCEPT !.pc = "start_rewrite",
                                      !.output_fields = output_fields,
                                      !.tmp = [exists |-> TRUE, lines |-> r.lines]]
           ELSE web' = [w EXCEPT !.pc = "count", !.output_fields = output_fields]
    /\ WebFrame

\* _rewrite_output_file, line 260: os.replace puts the temporary file in the
\* place of the output file; inside the loop the writer is then opened again
\* in append mode.
WebReplace ==
    /\ web.pc \in {"start_rewrite", "rewrite"}
    /\ web' = [web EXCEPT !.disk = web.tmp, !.tmp = NoFile,
                          !.pc = IF web.pc = "start_rewrite" THEN "count" ELSE "write"]
    /\ WebFrame

\* main, lines 373-386: the lines of the output file are counted and the
\* writer is opened.
WebOpen ==
    /\ web.pc = "count"
    /\ LET n == IF web.disk.exists THEN readlines(web.disk.lines, 1) ELSE 0
           resumed == n > 1
           total == IF web.limit = 0 THEN Len(web.rows)
                    ELSE IF Len(web.rows) < web.limit THEN Len(web.rows)
                    ELSE web.limit
       IN  web' = [web EXCEPT
                     !.pc = "loop", !.idx = 0,
                     !.processed_count = IF resumed THEN n - 1 ELSE 0,
                     !.write_mode = IF resumed THEN "a" ELSE "w",
                     !.total_to_process = total,
                     !.disk = IF resumed THEN @ ELSE EmptyFile,
                     !.buf = IF resumed THEN <<>>
                             ELSE <<HeaderCells(web.output_fields)>>]
    /\ WebFrame

WebAtRecord ==
    web.pc = "loop" /\ web.idx < Len(web.rows) /\ web.idx < web.total_to_process

WebRow == web.rows[web.idx + 1]

\* main, lines 408-425: the links are put into the row; a link beyond the
\* columns of the header makes the header grow: what was written is flushed,
\* the file closed and rewritten into the temporary file.
WebPrepare ==
    /\ web.pc = "classified"
    /\ LET news == [c \in DOMAIN WebRow \cup {"noticia_TSE", "noticia_TRE"} |->
                       IF c = "noticia_TSE" THEN web.noticia_tse
                       ELSE IF c = "noticia_TRE" THEN web.noticia_tre
                       ELSE WebRow[c]]
           applied == _apply_geral_links(news, web.noticia_geral_links)
           output_fields == AddMissing(web.output_fields, applied.new_columns, 1)
           flushed == FlushAll(web.disk.lines, web.buf)
           r == _rewrite_output_file([exists |-> TRUE, lines |-> flushed], output_fields)
           w == [web EXCEPT !.row = applied.row, !.noticia_tse = <<>>,
                            !.noticia_tre = <<>>, !.noticia_geral_links = <<>>]
       IN  IF output_fields = web.output_fields
           THEN web' = [w EXCEPT !.pc = "write"]
           ELSE web' = [w EXCEPT !.pc = IF r.raised THEN "crashed" ELSE "rewrite",
                                 !.output_fields = output_fields,
                                 !.disk.lines = flushed, !.buf = <<>>,
                                 !.tmp = IF r.raised THEN @
                                         ELSE [exists |-> TRUE, lines |-> r.lines]]
    /\ WebFrame

\* main, lines 391-392: a record the output file is taken to hold.
WebSkip ==
    /\ WebAtRecord
    /\ web.idx < web.processed_count
    /\ web' = [web EXCEPT !.idx = @ + 1]
    /\ WebFrame

\* main, lines 396-407: an empty context, no request.
WebNoContext ==
    /\ WebAtRecord
    /\ web.idx >= web.processed_count
    /\ _build_context(WebRow, MAX_LEN_WEB) = <<>>
    /\ web' = [web EXCEPT !.pc = "classified", !.via = "NoContext",
                          !.noticia_tse = <<>>, !.noticia_tre = <<>>,
                          !.noticia_geral_links = <<>>]
    /\ WebFrame

\* main, lines 398-405: the wrapper is called, with max_retries=3.
WebQuery ==
    /\ WebAtRecord
    /\ web.idx >= web.processed_count
    /\ _build_context(WebRow, MAX_LEN_WEB) # <<>>
    /\ web' = [web EXCEPT !.pc = "wrapper", !.attempt = 0, !.outcomes = <<>>,
                          !.sleeps = <<>>, !.raw_text = <<>>]
    /\ WebFrame

\* A retry loop that runs once more than range(max_retries).
WebAttemptOnceMore(o) ==
    /\ web.pc = "wrapper"
    /\ web.attempt <= web.max_retries
    /\ LET called == [web EXCEPT !.outcomes = Append(@, o)]
       IN  IF o.kind = "response"
           THEN web' = [called EXCEPT !.pc = "returned",
                                      !.raw_text = IF o.text # <<>> THEN o.text
                                                   ELSE SENTINEL]
           ELSE web' = [called EXCEPT
                          !.attempt = @ + 1,
                          !.sleeps = Append(@, IF o.code = 429 THEN 60
                                               ELSE Pow2(web.attempt))]
    /\ WebFrame

\* _call_gemini_with_web_search (WEB), lines 104-152: one pass of the retry
\* loop.  A response with text returns it, one without returns the
\* sentinel at once; an exception sleeps 60 s when its message names 429,
\* else 2 ** attempt.
WebAttempt(o) ==
    /\ web.pc = "wrapper"
    /\ web.attempt < web.max_retries
    /\ LET called == [web EXCEPT !.outcomes = Append(@, o)]
       IN  IF o.kind = "response"
           THEN web' = [called EXCEPT !.pc = "returned",
                                      !.raw_text = IF o.text # <<>> THEN o.text
                                                   ELSE SENTINEL]
           ELSE web' = [called EXCEPT
                          !.attempt = @ + 1,
                          !.sleeps = Append(@, IF o.code = 429 THEN 60
                                               ELSE Pow2(web.attempt))]
    /\ WebFrame

\* _call_gemini_with_web_search (WEB), lines 157-158: the retries are used
\* up, the sentinel is returned.
WebGiveUp ==
    /\ web.pc = "wrapper"
    /\ web.attempt >= web.max_retries
    /\ web' = [web EXCEPT !.pc = "returned", !.raw_text = SENTINEL]
    /\ WebFrame

\* main, lines 405-407, for the result r of _process_response_text.
WebProcessed(w, r) ==
    IF r.raised
    THEN [w EXCEPT !.pc = "crashed", !.buf = <<>>,
                   !.disk.lines = FlushAll(@, w.buf)]
    ELSE [w EXCEPT !.pc = "classified", !.via = "Queried",
                   !.noticia_tse = r.tse, !.noticia_tre = r.tre,
                   !.noticia_geral_links = r.geral]

\* main, lines 405-425: the returned text is processed.  An exception of
\* _process_response_text is caught nowhere: finally closes the file and
\* the exception leaves main.
WebProcess ==
    /\ web.pc = "returned"
    /\ web.mode = "main"
    /\ web' = WebProcessed(web, _process_response_text(web.raw_text))
    /\ WebFrame

\* main, line 427: writer.writerow(row).
WebWriteRow ==
    /\ web.pc = "write"
    /\ LET cells == RowCells(web.row, web.output_fields)
       IN  web' = [web EXCEPT
                     !.pc = "written", !.buf = Append(@, cells),
                     !.trace = Append(@, [idx |-> web.idx, via |-> web.via,
                                          cells |-> cells])]
    /\ WebFrame

\* A main that goes on without f.flush().
WebWithoutFlush ==
    /\ web.pc = "written"
    /\ web' = [web EXCEPT !.pc = "sleep"]
    /\ WebFrame

\* main, line 428: f.flush().
WebFlush ==
    /\ web.pc = "written"
    /\ web' = [web EXCEPT !.pc = "sleep", !.buf = <<>>,
                          !.disk.lines = FlushAll(@, web.buf)]
    /\ WebFrame

\* main, line 430: time.sleep(args.sleep) is over, on to the next record.
WebSleep ==
    /\ web.pc = "sleep"
    /\ web' = [web EXCEPT !.pc = "loop", !.idx = @ + 1]
    /\ WebFrame

\* main, lines 387-389 and 431-432: the loop is over, finally closes the
\* file.
WebFinish ==
    /\ web.pc = "loop"
    /\ ~WebAtRecord
    /\ web' = [web EXCEPT !.pc = "done", !.buf = <<>>,
                          !.disk.lines = FlushAll(@, web.buf)]
    /\ WebFrame

\* The process is killed.  What the file object holds is lost: a row is
\* smaller than its buffer, so nothing of a row reaches the file before
\* f.flush, which writes it whole.
WebKill ==
    /\ web.pc \in WebRunning
    /\ web.mode = "main"
    /\ web' = [web EXCEPT !.pc = "killed", !.buf = <<>>]
    /\ WebFrame

\* Nothing of the viaAPI program runs.
ApiOff == [pc |-> "off"]

\* The state of the WEB program before main is entered.
WebState(mode, rows, disk, max_retries) ==
    [mode |-> mode, fieldnames |-> FIELDNAMES, rows |-> rows,
     max_retries |-> max_retries, disk |-> disk, tmp |-> NoFile,
     run |-> 0, pc |-> "idle", limit |-> 0, output_fields |-> <<>>,
     processed_count |-> 0, write_mode |-> "w", total_to_process |-> 0,
     idx |-> 0, buf |-> <<>>, attempt |-> 0, outcomes |-> <<>>,
     sleeps |-> <<>>, raw_text |-> <<>>, noticia_tse |-> <<>>,
     noticia_tre |-> <<>>, noticia_geral_links |-> <<>>, row |-> <<>>,
     via |-> "", trace |-> <<>>]

\* main, line 403: max_retries=3.
WEB_MAX_RETRIES == 3

InitWEB ==
    /\ \E rows \in InputTables, legacy \in BOOLEAN :
           web = WebState("main", rows,
                          IF legacy THEN LegacyFile(rows) ELSE NoFile,
                          WEB_MAX_RETRIES)
    /\ api = ApiOff

NextWEB ==
    \/ \E limit \in 0..MaxLimit : WebBegin(limit)
    \/ WebReplace
    \/ WebOpen
    \/ WebSkip
    \/ WebNoContext
    \/ WebQuery
    \/ \E o \in WebOutcomes : WebAttempt(o)
    \/ WebGiveUp
    \/ WebProcess
    \/ WebPrepare
    \/ WebWriteRow
    \/ WebFlush
    \/ WebSleep
    \/ WebFinish
    \/ WebKill

SpecWEB == InitWEB /\ [][NextWEB]_vars

----------------------------------------------------------------------------
(* Further specifications.                                                 *)

\* _call_gemini_with_web_search (viaAPI) called on its own, with every
\* outcome of the client and every max_retries from 0 on.
InitRetry ==
    /\ \E max_retries \in 0..(MaxRetries + 1) :
           api = [ApiState("wrapper", <<>>, NoFile, max_retries, FALSE)
                    EXCEPT !.pc = "wrapper", !.context = <<"tema", ":", " ", "X">>]
    /\ web = WebOff

NextRetry ==
    \/ \E o \in ApiOutcomes : ApiAttempt(o)
    \/ ApiExhausted

SpecRetry == InitRetry /\ [][NextRetry]_vars

\* The steps of a run of the viaAPI main that is not killed.
ApiProgress ==
    \/ ApiSkip
    \/ ApiNoContext
    \/ ApiCached
    \/ ApiQuery
    \/ \E o \in MainOutcomes : ApiAttempt(o)
    \/ ApiExhausted
    \/ ApiHandleReturn
    \/ ApiHandleRaise
    \/ ApiFinish

\* The viaAPI main as a process that keeps taking its steps: a client call
\* returns or raises, a sleep ends.
FairSpecAPI == SpecAPI /\ WF_vars(ApiProgress)

\* Either program, on its own files.
InitBoth == InitAPI \/ InitWEB

NextBoth == NextAPI \/ NextWEB

SpecBoth == InitBoth /\ [][NextBoth]_vars

\* The outcomes of a client call when the WEB wrapper is called on its own.
WebRetryOutcomes ==
    WebOutcomes \cup
    { Raises("ClientError", 403), Raises("ServerError", 500),
      Raises("ResourceExhausted", 429) }

\* _call_gemini_with_web_search (WEB) called on its own, with every
\* max_retries from 0 on, beside the runs of the WEB main.
InitWebRetry ==
    \/ InitWEB
    \/ /\ \E max_retries \in 0..(MaxRetries + 1) :
              web = [WebState("wrapper", <<>>, NoFile, max_retries)
                       EXCEPT !.pc = "wrapper"]
       /\ api = ApiOff

NextWebRetry ==
    \/ NextWEB
    \/ \E o \in WebRetryOutcomes : web.mode = "wrapper" /\ WebAttempt(o)

SpecWebRetry == InitWebRetry /\ [][NextWebRetry]_vars

\* The parts of the URLs given to the classifier: with and without a
\* scheme, a leading www., user credentials, a port and a path.
ClassifySchemes == {<<>>, <<"https://">>, <<"http://">>, <<"HTTP://">>}
ClassifyUsers == {<<>>, <<"user", ":", "pass", "@">>}
ClassifyWww == {<<>>, <<"www", ".">>}
ClassifyPorts == {<<>>, <<":", "8080">>}
ClassifyTails == {<<>>, <<"/", "a">>}

\* The hosts: the TSE domain, a subdomain of it, in capitals, with a letter
\* before it (xtse.jus.br) and as a prefix of another domain; TRE domains
\* likewise; listed and unlisted news domains, one of them with a letter
\* before a listed name (xcnn.com); other jus.br hosts, two of them ending
\* in a listed name (jus.br.cnn.com, jus.brcnn.com); a host urlparse
\* rejects; no host.
ClassifyHosts ==
    { TSE_DOMAIN, Dom(<<"sub", "tse", "jus", "br">>), Dom(<<"TSE", "JUS", "BR">>),
      <<"x">> \o TSE_DOMAIN, Dom(<<"tse", "jus", "br", "evil", "com">>),
      Dom(<<"tre-sp", "jus", "br">>), Dom(<<"TRE-SP", "jus", "br">>),
      Dom(<<"a", "b", "tre-rj", "jus", "br">>),
      <<"x">> \o Dom(<<"tre-sp", "jus", "br">>),
      Dom(<<"folha", "uol", "com", "br">>), Dom(<<"Folha", "uol", "com", "br">>),
      Dom(<<"sub", "cnn", "com">>), <<"x">> \o Dom(<<"cnn", "com">>),
      Dom(<<"g1", "globo", "com">>), Dom(<<"random", "com">>),
      Dom(<<"jus", "br">>), Dom(<<"stf", "jus", "br">>),
      Dom(<<"jus", "br", "cnn", "com">>),
      <<"jus", ".", "br">> \o Dom(<<"cnn", "com">>),
      <<"[", "::1">>, <<>> }

ClassifyItems ==
    [scheme : ClassifySchemes, user : ClassifyUsers, www : ClassifyWww,
     host : ClassifyHosts, port : ClassifyPorts, tail : ClassifyTails]

\* The URL string made of the parts.
UrlText(p) == p.scheme \o p.user \o p.www \o p.host \o p.port \o p.tail

\* The items that are given in pairs, in both orders and twice over.
ClassifyPairHosts ==
    { TSE_DOMAIN, Dom(<<"tre-sp", "jus", "br">>),
      Dom(<<"folha", "uol", "com", "br">>), Dom(<<"random", "com">>),
      Dom(<<"jus", "br">>) }

ClassifyPairItems ==
    [scheme : {<<>>, <<"https://">>}, user : {<<>>}, www : {<<>>},
     host : ClassifyPairHosts, port : {<<>>}, tail : {<<>>}]

\* The lists of URLs given to _classify_urls: none, every single URL, and
\* the pairs and the threes of a few.
\* The items that are given in threes: the TSE domain in small letters and
\* in capitals, and a listed news domain.
ClassifyTripleItems ==
    [scheme : {<<"https://">>}, user : {<<>>}, www : {<<>>},
     host : {TSE_DOMAIN, Dom(<<"TSE", "JUS", "BR">>),
             Dom(<<"folha", "uol", "com", "br">>)},
     port : {<<>>}, tail : {<<"/", "a">>}]

ClassifyInputs ==
    {<<>>} \cup {<<p>> : p \in ClassifyItems}
           \cup {<<p, q>> : p \in ClassifyPairItems, q \in ClassifyPairItems}
           \cup {<<p, q, r>> : p \in ClassifyTripleItems, q \in ClassifyTripleItems,
                               r \in ClassifyTripleItems}

\* A call of _classify_urls and of _domain_from_url that has not been made.
ClassifyState(items) ==
    [pc |-> "input", mode |-> "classify", items |-> items,
     urls |-> [i \in 1..Len(items) |-> UrlText(items[i])],
     out |-> NoUrls, domains |-> <<>>, parsed |-> FALSE]

InitClassify ==
    \E items \in ClassifyInputs :
        /\ api = ClassifyState(items)
        /\ web = ClassifyState(items)

\* _classify_urls of the viaAPI variant is called on the list.
ClassifyAPI ==
    /\ api.pc = "input"
    /\ api' = [api EXCEPT !.pc = "classified", !.out = _classify_urls_API(api.urls)]
    /\ UNCHANGED web

\* _classify_urls of the WEB variant is called on the list.
ClassifyWEB ==
    /\ web.pc = "input"
    /\ web' = [web EXCEPT !.pc = "classified", !.out = _classify_urls_WEB(web.urls)]
    /\ UNCHANGED api

\* _domain_from_url is called on each normalized URL, as _classify_urls
\* calls it.
DomainFromUrl ==
    /\ ~api.parsed
    /\ api' = [api EXCEPT
                 !.parsed = TRUE,
                 !.domains = [i \in 1..Len(api.urls) |->
                                _domain_from_url(_normalize_url(api.urls[i]))]]
    /\ UNCHANGED web

NextClassify ==
    \/ ClassifyAPI
    \/ ClassifyWEB
    \/ DomainFromUrl

SpecClassify == InitClassify /\ [][NextClassify]_vars

\* The model texts given to _extract_json: a JSON value or none (an object
\* with a link, the empty object, a list, a list holding an object, null, a
\* number, a string, a literal, nothing, prose, a cut object), bare, fenced
\* or with prose around it.
ExtractPrefixes ==
    {<<>>, <<FENCE, "json", NL>>, <<FENCE, NL>>, <<"see", " ">>, <<" ", NL>>}

ExtractCores ==
    { TEXT_TRE, <<"{", "}">>, TEXT_LIST, <<"[">> \o TEXT_TRE \o <<"]">>,
      TEXT_NULL, TEXT_NUMBER, Q(<<"x">>), <<"true">>, <<>>, <<"nothing">>,
      <<"{">> \o Q(<<"noticia_TSE">>) \o <<":">> }

ExtractSuffixes == {<<>>, <<NL, FENCE>>, <<" ", "thanks">>, <<NL>>}

ExtractTexts ==
    {p \o c \o e : p \in ExtractPrefixes, c \in ExtractCores, e \in ExtractSuffixes}

\* A call of _extract_json that has not been made.
ExtractState(text) ==
    [pc |-> "text", mode |-> "extract", text |-> text, data |-> JObj(<<>>)]

InitExtract ==
    \E text \in ExtractTexts :
        /\ api = ExtractState(text)
        /\ web = ExtractState(text)

\* _extract_json of the viaAPI variant is called on the text.
ExtractAPI ==
    /\ api.pc = "text"
    /\ api' = [api EXCEPT !.pc = "extracted", !.data = _extract_json(api.text)]
    /\ UNCHANGED web

\* _extract_json of the WEB variant, the same code, is called on the text.
ExtractWEB ==
    /\ web.pc = "text"
    /\ web' = [web EXCEPT !.pc = "extracted", !.data = _extract_json(web.text)]
    /\ UNCHANGED api

NextExtract ==
    \/ ExtractAPI
    \/ ExtractWEB

SpecExtract == InitExtract /\ [][NextExtract]_vars

\* JSON object texts: the empty object, an object with a link, one with
\* an object inside, one written on several lines, one whose string holds a
\* fence and a closing brace.
WrapObjects ==
    { <<"{", "}">>, TEXT_TRE,
      <<"{">> \o Q(<<"k">>) \o <<":", " ">> \o TEXT_TRE \o <<"}">>,
      <<"{", NL, " ">> \o Q(<<"noticia_TSE">>) \o <<":", " ", "[", "]", NL, "}">>,
      <<"{">> \o Q(<<"a">>) \o <<":">> \o Q(<<"x", " ", FENCE, " ", "}">>) \o <<"}">> }

\* What stands before the object in the model text: nothing, a fence line
\* with and without json, prose without braces, prose with a brace pair,
\* prose with a closing brace, prose and the opening of an enclosing
\* object.
WrapBefore ==
    { <<>>, <<FENCE, "json", NL>>, <<FENCE, NL>>, <<"see", " ">>,
      <<"{", "note", "}", " ">>, <<"a", " ", "}", " ">>,
      <<"see", " ", "{">> \o Q(<<"k">>) \o <<":">> }

\* What stands after it: nothing, the closing fence line, prose without
\* braces, prose with an opening brace, prose with a closing brace, the
\* closing of an enclosing object and prose.
WrapAfter ==
    { <<>>, <<NL, FENCE>>, <<NL, FENCE, NL>>, <<" ", "thanks">>,
      <<" ", "{", "y">>, <<" ", "y", "}">>, <<"}", " ", "thanks">> }

\* Two calls of _extract_json that have not been made: on the object text
\* and on the model text that holds it.
WrapState(object, before, after) ==
    [pc |-> "text", mode |-> "wrap", object |-> object, before |-> before,
     after |-> after, text |-> before \o object \o after,
     bare |-> JObj(<<>>), bare_done |-> FALSE,
     data |-> JObj(<<>>), data_done |-> FALSE]

InitWrap ==
    /\ \E object \in WrapObjects, before \in WrapBefore, after \in WrapAfter :
           api = WrapState(object, before, after)
    /\ web = WebOff

\* _extract_json is called on the object text.
ExtractObject ==
    /\ ~api.bare_done
    /\ api' = [api EXCEPT !.bare_done = TRUE, !.bare = _extract_json(api.object)]
    /\ UNCHANGED web

\* _extract_json is called on the model text.
ExtractWrapped ==
    /\ ~api.data_done
    /\ api' = [api EXCEPT !.data_done = TRUE, !.data = _extract_json(api.text)]
    /\ UNCHANGED web

NextWrap ==
    \/ ExtractObject
    \/ ExtractWrapped

SpecWrap == InitWrap /\ [][NextWrap]_vars

\* A run of the viaAPI main over one record whose only context field is
\* tema, the client answering with a response of the scenario.
InitScenario ==
    /\ api = ApiState("main", <<ROW_A>>, NoFile, 1, FALSE)
    /\ web = WebOff

NextScenario ==
    \/ ApiStart(FALSE, 0)
    \/ ApiQuery
    \/ \E o \in ScenarioOutcomes : ApiAttempt(o)
    \/ ApiHandleReturn
    \/ ApiFinish

SpecScenario == InitScenario /\ [][NextScenario]_vars

\* The value a response holds under one expected key, with the list of
\* candidates it stands for: text is the JSON text of the value, strings
\* the string elements of a list value in order, tokens the URL tokens in a
\* scalar string value.
Absent == [present |-> FALSE, text |-> <<>>, strings |-> <<>>, tokens |-> <<>>]

ListValue(text, strings) ==
    [present |-> TRUE, text |-> text, strings |-> strings, tokens |-> <<>>]

StringValue(text, tokens) ==
    [present |-> TRUE, text |-> text, strings |-> <<>>, tokens |-> tokens]

OtherValue(text) ==
    [present |-> TRUE, text |-> text, strings |-> <<>>, tokens |-> <<>>]

\* The values under a key whose own link is url: no member, the empty
\* list, a list of the link and a link of an unlisted site, a list of a
\* number, the link and null, a list of the unlisted link only, a string
\* with the link in prose, a number, null.
ResponseValues(url) ==
    { Absent,
      ListValue(<<"[", "]">>, <<>>),
      ListValue(<<"[">> \o Q(url) \o <<",", " ">> \o Q(URL_RANDOM) \o <<"]">>,
                <<url, URL_RANDOM>>),
      ListValue(<<"[", "42", ",", " ">> \o Q(url) \o <<",", " ", "null", "]">>,
                <<url>>),
      ListValue(<<"[">> \o Q(URL_RANDOM) \o <<"]">>, <<URL_RANDOM>>),
      StringValue(Q(<<"see", " ">> \o url \o <<" ", "today">>), <<url>>),
      OtherValue(<<"42">>),
      OtherValue(<<"null">>) }

\* What a response holds beside the expected keys: nothing, or a link
\* under another key, or a link in prose before the object.
ResponseExtras == {"none", "member", "prose"}

URL_ELSEWHERE ==
    <<"https://">> \o Dom(<<"conjur", "com", "br">>) \o <<"/", "e">>

\* The members of the object: the expected keys that are present, then the
\* other key.
ResponseMembers(given, extra) ==
    LET named == [k \in 1..Len(NEWS_COLUMNS) |->
                     [present |-> given[k].present,
                      text |-> Q(<<NEWS_COLUMNS[k]>>) \o <<":", " ">> \o given[k].text]]
        other == [present |-> extra = "member",
                  text |-> Q(<<"fonte">>) \o <<":", " ">> \o Q(URL_ELSEWHERE)]
        sel == SelectSeq(Append(named, other), LAMBDA e : e.present)
    IN  [j \in 1..Len(sel) |-> sel[j].text]

\* The text of the response.
ResponseText(given, extra) ==
    (IF extra = "prose" THEN <<"see", " ">> \o URL_ELSEWHERE \o <<" ">> ELSE <<>>)
    \o <<"{">> \o join(<<",", " ">>, ResponseMembers(given, extra)) \o <<"}">>

\* A call of _combine_urls_from_response, or of _process_response_text,
\* that has not been made.
ResponseState(given, extra) ==
    [pc |-> "text", mode |-> "response", given |-> given, extra |-> extra,
     text |-> ResponseText(given, extra), keys |-> <<>>, scanned |-> FALSE,
     out |-> NoUrls, ret |-> <<>>]

InitResponse ==
    \E tse \in ResponseValues(URL_TSE_A), tre \in ResponseValues(URL_TRE_C),
       geral \in ResponseValues(<<"https://">> \o URL_FOLHA_B),
       extra \in ResponseExtras :
        /\ api = ResponseState(<<tse, tre, geral>>, extra)
        /\ web = ResponseState(<<tse, tre, geral>>, extra)

\* _combine_urls_from_response, lines 264-267: the text is parsed and the
\* values of the three keys give the candidates; data.get raises on a value
\* that is no dict.
CombineKeys ==
    /\ api.pc = "text"
    /\ LET data == _extract_json(api.text)
       IN  api' = IF data.tag # "obj" THEN [api EXCEPT !.pc = "raised"]
                  ELSE [api EXCEPT !.pc = "keys", !.keys = KeyUrlsAPI(data.items, 1)]
    /\ UNCHANGED web

\* _combine_urls_from_response, lines 268-270, and _join_urls on the lists
\* (main, lines 409-411).
CombineReturn ==
    /\ api.pc = "keys"
    /\ LET out == _classify_urls_API(OrFound(api.keys, api.text))
       IN  api' = [api EXCEPT !.pc = "done", !.scanned = (api.keys = <<>>),
                              !.out = out,
                              !.ret = <<_join_urls(out.tse), _join_urls(out.tre),
                                        _join_urls(out.geral)>>]
    /\ UNCHANGED web

\* _process_response_text, lines 222-228.
ProcessKeys ==
    /\ web.pc = "text"
    /\ LET data == _extract_json(web.text)
       IN  web' = IF data.tag # "obj" THEN [web EXCEPT !.pc = "raised"]
                  ELSE [web EXCEPT !.pc = "keys", !.keys = KeyUrlsWEB(data.items, 1)]
    /\ UNCHANGED api

\* _process_response_text, lines 230-234.
ProcessReturn ==
    /\ web.pc = "keys"
    /\ LET out == _classify_urls_WEB(OrFound(web.keys, web.text))
       IN  web' = [web EXCEPT !.pc = "done", !.scanned = (web.keys = <<>>),
                              !.out = out,
                              !.ret = <<_join_urls(out.tse), _join_urls(out.tre),
                                        out.geral>>]
    /\ UNCHANGED api

NextResponse ==
    \/ CombineKeys
    \/ CombineReturn
    \/ ProcessKeys
    \/ ProcessReturn

SpecResponse == InitResponse /\ [][NextResponse]_vars

\* The values of a context field given to _build_context, one chunk a
\* character: empty, blank, short, with blanks around it, of four
\* characters, with a blank as second character, with a line break, of 301
\* characters, and of 242 characters with a blank as the 240th.
Repeated(c, n) == [k \in 1..n |-> c]

ContextValues ==
    { <<>>, <<" ", "\t">>, <<"a">>, <<" ", "a", "b", " ">>, <<"a", "b", "c", "d">>,
      <<"a", " ", "b", "c">>, <<"a", NL, "b">>,
      Repeated("a", MAX_LEN_WEB + 1),
      Repeated("a", MAX_LEN_API - 1) \o <<" ", "b", "b">> }

\* The context fields that the records of the check have or lack.
ContextColumns == {"partes", "relator", "tema"}

\* The values of max_len: small ones and the defaults of the two variants.
ContextLimits == {1, 2, 3, MAX_LEN_API, MAX_LEN_WEB}

\* A call of _build_context that has not been made.  In the records each of
\* the three columns is missing or holds a value; the column id, which is
\* no context field, is always there.
ContextState(row, max_len) ==
    [pc |-> "row", mode |-> "context", row |-> row, max_len |-> max_len,
     context |-> <<>>]

InitContext ==
    \E present \in SUBSET ContextColumns, max_len \in ContextLimits :
        \E values \in [present -> ContextValues] :
            LET row == [c \in present \cup {"id"} |->
                           IF c = "id" THEN <<"7">> ELSE values[c]]
            IN  /\ api = ContextState(row, max_len)
                /\ web = ContextState(row, max_len)

\* _build_context of the viaAPI variant is called on the record.
BuildContextAPI ==
    /\ api.pc = "row"
    /\ api' = [api EXCEPT !.pc = "built",
                          !.context = _build_context(api.row, api.max_len)]
    /\ UNCHANGED web

\* _build_context of the WEB variant is called on the record.
BuildContextWEB ==
    /\ web.pc = "row"
    /\ web' = [web EXCEPT !.pc = "built",
                          !.context = _build_context(web.row, web.max_len)]
    /\ UNCHANGED api

NextContext ==
    \/ BuildContextAPI
    \/ BuildContextWEB

SpecContext == InitContext /\ [][NextContext]_vars

----------------------------------------------------------------------------
(* processar_teses: batches of rows sent to the model, with a checkpoint   *)
(* file.  The state is carried by the variable api: n the number of rows   *)
(* of the input CSV, cp the checkpoint file, csv whether the output CSV    *)
(* was written, indice_inicial and todos_os_resultados the locals of main, *)
(* i the loop variable, sent the batches of row ids given to the API in    *)
(* this run, loaded what carregar_checkpoint read, saved the checkpoint    *)
(* that was last written whole.                                            *)

TAMANHO_LOTE == 20

\* The numbers of rows of the input CSV: none, one, one batch and a row,
\* two batches and a row.
TesesSizes == {0, 1, TAMANHO_LOTE + 1, 2 * TAMANHO_LOTE + 1}

\* No checkpoint file.
NoCheckpoint == [exists |-> FALSE, whole |-> FALSE, indice |-> -1, registros |-> <<>>]

\* The file after open(filepath, 'w'), and after a write that stopped
\* before the end of the JSON text.
CutCheckpoint == [exists |-> TRUE, whole |-> FALSE, indice |-> -1, registros |-> <<>>]

\* The file after json.dump of the index and the records.
Checkpoint(indice, registros) ==
    [exists |-> TRUE, whole |-> TRUE, indice |-> indice, registros |-> registros]

\* carregar_checkpoint returning the index of the checkpoint, not the next.
CarregarSameIndex(cp) ==
    IF cp.exists /\ cp.whole
    THEN [indice_inicial |-> cp.indice, registros |-> cp.registros]
    ELSE [indice_inicial |-> 0, registros |-> <<>>]

\* carregar_checkpoint: the next index and the records of a checkpoint that
\* json.load reads, else 0 and no record.
carregar_checkpoint(cp) ==
    IF cp.exists /\ cp.whole
    THEN [indice_inicial |-> cp.indice + 1, registros |-> cp.registros]
    ELSE [indice_inicial |-> 0, registros |-> <<>>]

\* The row ids of the batch that starts at offset i of df.iloc[indice_inicial:].
LoteIds(n, indice_inicial, i) ==
    LET first == indice_inicial + i
        size == IF n - first < TAMANHO_LOTE THEN n - first ELSE TAMANHO_LOTE
    IN  [k \in 1..size |-> first + k - 1]

\* What analisar_lote_com_gemini gives for a batch: a result for every id
\* ("all"), None or an empty list ("none"), results that carry no id
\* ("noid"), a list whose elements are no mappings ("bad"), every result
\* twice ("repeated"), one result, for the first id, with the id alone
\* ("first"), a result for every id and one for an id that was not sent
\* ("invented").
TesesOutcomes == {"all", "none", "noid", "bad", "repeated", "first", "invented"}

\* One pass of the loop of analisar_lote_com_gemini: generate_content
\* raises ("error"), the text is no JSON ("unparseable"), the JSON value is
\* no mapping, so that data.get raises ("nodict"); these are caught at line
\* 125.  Or the text is a mapping: without the key resultados or with an
\* empty list ("empty"), or with one of the lists above.
TesesFailures == {"error", "unparseable", "nodict"}

TesesResponses == (TesesOutcomes \ {"none"}) \cup {"empty"}

\* range(3)
TENTATIVAS == 3

\* The record main stores for one result, lines 180-184 and 193.
Registro(index, tese, justificativa, resultado) ==
    [original_index |-> index, Tese |-> tese, Justificativa |-> justificativa,
     Resultado |-> resultado]

\* An id no row of the input has.
InventedId(ids) == 1000 + ids[1]

\* main, lines 176-194: the records appended for the batch.  The results
\* are keyed by id, so a repeated id gives one record; a result without
\* tese, justificativa and resultado gets the defaults of lines 181-183.
ResultadosLote(ids, outcome) ==
    IF outcome \in {"all", "repeated"}
    THEN [k \in 1..Len(ids) |-> Registro(ids[k], "T", "J", "Tese fixada")]
    ELSE IF outcome = "none"
    THEN [k \in 1..Len(ids) |->
             Registro(ids[k], "ERRO_LOTE", "", "Infraconstitucional")]
    ELSE IF outcome = "first"
    THEN <<Registro(ids[1], "ERRO_API", "", "Infraconstitucional")>>
    ELSE IF outcome = "invented"
    THEN [k \in 1..Len(ids) |-> Registro(ids[k], "T", "J", "Tese fixada")]
         \o <<Registro(InventedId(ids), "T", "J", "Tese fixada")>>
    ELSE <<>>

TesesRunning == {"loop", "calling", "returned", "save", "writing", "sleep", "csv"}

TesesStopped == {"idle", "done", "empty", "failed", "killed"}

\* The files before the first run.
TesesState(n) ==
    [pc |-> "idle", mode |-> "teses", n |-> n, run |-> 0,
     cp |-> NoCheckpoint, saved |-> NoCheckpoint, csv |-> FALSE,
     loaded |-> NoCheckpoint, indice_inicial |-> 0, todos_os_resultados |-> <<>>,
     i |-> 0, sent |-> <<>>, calls |-> <<>>, ret |-> "", saida |-> <<>>]

InitTeses ==
    /\ \E n \in TesesSizes : api = TesesState(n)
    /\ web = WebOff

\* main, lines 143-152: the checkpoint is read, the loop starts.
TesesStart ==
    /\ api.pc \in TesesStopped
    /\ api.run < MaxRuns
    /\ LET c == carregar_checkpoint(api.cp)
       IN  api' = [api EXCEPT !.pc = "loop", !.run = @ + 1, !.loaded = api.cp,
                              !.indice_inicial = c.indice_inicial,
                              !.todos_os_resultados = c.registros,
                              !.i = 0, !.sent = <<>>, !.calls = <<>>, !.ret = ""]
    /\ UNCHANGED web

\* The loop of line 154 has a batch left.
TesesAtLote == api.pc = "loop" /\ api.indice_inicial + api.i < api.n

\* main, lines 155-174: the batch is built and analisar_lote_com_gemini is
\* called with its rows.
TesesCall ==
    /\ TesesAtLote
    /\ api' = [api EXCEPT !.pc = "calling", !.calls = <<>>, !.ret = "",
                          !.sent = Append(@, LoteIds(api.n, api.indice_inicial, api.i))]
    /\ UNCHANGED web

\* A loop of analisar_lote_com_gemini that goes on after a failure without
\* counting the attempts.
TesesAttemptUnbounded(o) ==
    /\ api.pc = "calling"
    /\ Len(api.calls) < TENTATIVAS + 1
    /\ api' = IF o \in TesesFailures
              THEN [api EXCEPT !.calls = Append(@, o)]
              ELSE [api EXCEPT !.calls = Append(@, o), !.pc = "returned",
                               !.ret = IF o = "empty" THEN "none" ELSE o]
    /\ UNCHANGED web

\* analisar_lote_com_gemini, lines 118-128: one pass of the loop.  A
\* failure is printed and slept on, and after the third the function
\* returns None; a mapping returns its list of results.
TesesAttempt(o) ==
    /\ api.pc = "calling"
    /\ api' = IF o \in TesesFailures
              THEN IF Len(api.calls) + 1 < TENTATIVAS
                   THEN [api EXCEPT !.calls = Append(@, o)]
                   ELSE [api EXCEPT !.calls = Append(@, o), !.pc = "returned",
                                    !.ret = "none"]
              ELSE [api EXCEPT !.calls = Append(@, o), !.pc = "returned",
                               !.ret = IF o = "empty" THEN "none" ELSE o]
    /\ UNCHANGED web

\* main, lines 176-194: the results of the call are appended; a result
\* that is no mapping raises at res.get, which ends the run at line 244.
TesesLote(outcome) ==
    /\ api.pc = "returned"
    /\ outcome = api.ret
    /\ LET ids == LoteIds(api.n, api.indice_inicial, api.i)
       IN  api' = IF outcome = "bad"
                  THEN [api EXCEPT !.pc = "failed", !.calls = <<>>, !.ret = ""]
                  ELSE [api EXCEPT !.pc = "save", !.ret = "",
                                   !.todos_os_resultados =
                                       @ \o ResultadosLote(ids, outcome)]
    /\ UNCHANGED web

\* salvar_checkpoint, line 96: open(filepath, 'w') empties the file, or
\* raises IOError, which is printed at line 103.
SalvarOpen(ok) ==
    /\ api.pc = "save"
    /\ api' = IF ok THEN [api EXCEPT !.pc = "writing", !.cp = CutCheckpoint]
              ELSE [api EXCEPT !.pc = "sleep"]
    /\ UNCHANGED web

\* salvar_checkpoint, lines 97-101: json.dump writes the index of the last
\* row of the batch and the records and the file is closed, or the write
\* raises IOError, which is printed at line 103.
SalvarDump(ok) ==
    /\ api.pc = "writing"
    /\ LET ids == LoteIds(api.n, api.indice_inicial, api.i)
           written == Checkpoint(api.indice_inicial + api.i + Len(ids) - 1,
                                 api.todos_os_resultados)
       IN  api' = IF ok THEN [api EXCEPT !.pc = "sleep", !.cp = written,
                                         !.saved = written]
                  ELSE [api EXCEPT !.pc = "sleep"]
    /\ UNCHANGED web

\* main, lines 199-200 and 154: the pause, then the next batch.
TesesSleep ==
    /\ api.pc = "sleep"
    /\ api' = [api EXCEPT !.pc = "loop", !.i = @ + TAMANHO_LOTE, !.calls = <<>>]
    /\ UNCHANGED web

\* The missing value of a cell, which to_csv writes as an empty field.
NaN == ""

\* main, lines 210-216: the column of the results, by row label, as the
\* assignment through df.loc aligns it; a row without record keeps NaN.
Merged(n, registros, column) ==
    [r \in 0..(n - 1) |->
        IF \E k \in 1..Len(registros) : registros[k].original_index = r
        THEN registros[CHOOSE k \in 1..Len(registros) :
                           registros[k].original_index = r][column]
        ELSE NaN]

\* main, lines 219-221 and 234: the rows to_csv writes.  Line 221 assigns
\* an empty Series to the column Justificativa, which aligns to NaN in
\* every row.
Saida(n, registros) ==
    [r \in 0..(n - 1) |->
        [Tese |-> Merged(n, registros, "Tese")[r],
         Justificativa |-> NaN,
         Resultado |-> Merged(n, registros, "Resultado")[r]]]

\* main, lines 203-235: after the last batch, with no result the run
\* returns; else the results are merged and the CSV is written.  A label
\* that is not in the index of df raises at df.loc, and that or an
\* exception of to_csv ends the run at line 244.
TesesFinal(ok) ==
    /\ api.pc = "loop"
    /\ ~TesesAtLote
    /\ LET registros == api.todos_os_resultados
           known == \A k \in 1..Len(registros) :
                        registros[k].original_index \in 0..(api.n - 1)
       IN  api' = IF registros = <<>> THEN [api EXCEPT !.pc = "empty"]
                  ELSE IF ok /\ known
                  THEN [api EXCEPT !.pc = "csv", !.csv = TRUE,
                                   !.saida = Saida(api.n, registros)]
                  ELSE [api EXCEPT !.pc = "failed"]
    /\ UNCHANGED web

\* main, lines 238-240: the checkpoint file is removed.
TesesRemove ==
    /\ api.pc = "csv"
    /\ api' = [api EXCEPT !.pc = "done",
                          !.cp = IF api.cp.exists THEN NoCheckpoint ELSE api.cp,
                          !.saved = NoCheckpoint]
    /\ UNCHANGED web

\* The process is killed; the files stay as they are.
TesesKill ==
    /\ api.pc \in TesesRunning
    /\ api' = [api EXCEPT !.pc = "killed"]
    /\ UNCHANGED web

\* The passes the runs over three batches take: the API fails, or answers
\* with every id, with no id, or with a list of values that are no mappings.
TesesBasicAttempts == {"error", "all", "noid", "bad"}

NextTeses ==
    \/ TesesStart
    \/ TesesCall
    \/ \E o \in TesesBasicAttempts : TesesAttempt(o)
    \/ \E outcome \in TesesOutcomes : TesesLote(outcome)
    \/ \E ok \in BOOLEAN : SalvarOpen(ok)
    \/ \E ok \in BOOLEAN : SalvarDump(ok)
    \/ TesesSleep
    \/ \E ok \in BOOLEAN : TesesFinal(ok)
    \/ TesesRemove
    \/ TesesKill

SpecTeses == InitTeses /\ [][NextTeses]_vars

\* The runs over one and two batches, with every kind of failure and of
\* answer in each pass.
LotesSizes == {1, TAMANHO_LOTE + 1}

InitLotes ==
    /\ \E n \in LotesSizes : api = TesesState(n)
    /\ web = WebOff

NextLotes ==
    \/ TesesStart
    \/ TesesCall
    \/ \E o \in TesesFailures \cup TesesResponses : TesesAttempt(o)
    \/ \E outcome \in TesesOutcomes : TesesLote(outcome)
    \/ \E ok \in BOOLEAN : SalvarOpen(ok)
    \/ \E ok \in BOOLEAN : SalvarDump(ok)
    \/ TesesSleep
    \/ \E ok \in BOOLEAN : TesesFinal(ok)
    \/ TesesRemove
    \/ TesesKill

SpecLotes == InitLotes /\ [][NextLotes]_vars

----------------------------------------------------------------------------
(* Properties.                                                             *)

\* The header main (viaAPI) expects: the input header followed by the news
\* columns it lacks, in the order TSE, TRE, geral.
ExpectedHeader(fieldnames) ==
    HeaderCells(fieldnames \o SelectSeq(NEWS_COLUMNS, LAMBDA c : c \notin ToSet(fieldnames)))

\* The line is whole and holds the cells.
WholeLine(line, cells) == line = [cells |-> cells, st |-> "ok", eol |-> TRUE]

\* The cells of the news columns in a row written under the header fields.
NewsCells(cells, fields) ==
    {cells[c] : c \in {d \in 1..Len(fields) : d <= Len(cells) /\ fields[d] \notin ToSet(FIELDNAMES)}}

\* The cells a run without interruption writes for record i when the client
\* answers each context as the oracle has it: no link for a blank context,
\* for an answer without text at every attempt and for a text that is no
\* JSON object, else the classified links.
UninterruptedUrls(a, i) ==
    LET context == _build_context(a.rows[i], MAX_LEN_API)
        o == a.oracle[context]
        text == _output_text_from_response(o)
    IN  IF context = <<>> THEN NoUrls
        ELSE IF o.kind # "response" \/ text = <<>> THEN NoUrls
        ELSE _combine_urls_from_response(text).urls

UninterruptedCells(a, i) ==
    LET urls == UninterruptedUrls(a, i)
    IN  RowCells(SetNews(a.rows[i], _join_urls(urls.tse), _join_urls(urls.tre),
                         _join_urls(urls.geral)),
                 ColNames(ExpectedHeader(a.fieldnames)))

\* The client has answered the context of record i (or the context is blank).
Answered(a, i) ==
    LET context == _build_context(a.rows[i], MAX_LEN_API)
    IN  context = <<>> \/ context \in DOMAIN a.oracle

\* The output file of a run without interruption over the first n records.
UninterruptedLines(a, n) ==
    <<Line(ExpectedHeader(a.fieldnames))>> \o
    [i \in 1..n |-> Line(UninterruptedCells(a, i))]

\* The number of rows after the first in the output file.
RecordsOnDisk(a) == IF a.disk.lines = <<>> THEN 0 ELSE Len(a.disk.lines) - 1

\* A run with --resume and a deterministic client is under way, and the
\* output file it opened holds the expected header and K < total whole
\* records, those of a run without interruption over the same input.
C1_ResumedOnK(a) ==
    /\ a.pc \in ApiRunning
    /\ a.resume /\ a.det /\ a.write_mode = "a"
    /\ RecordsOnDisk(a) < Total(a.rows, a.limit)
    /\ \A i \in 1..RecordsOnDisk(a) : Answered(a, i)
    /\ a.disk.lines = UninterruptedLines(a, RecordsOnDisk(a))

\* C1: a run resumed on the expected header and K whole records of an
\* earlier run on the same input (0 <= K < total), with a client that
\* answers each context always alike, calls the client for no record up to
\* K, writes the records K+1..total in input order and nothing else, and
\* ends with the output file of a run without interruption.
C1_ResumeLaw ==
    [][C1_ResumedOnK(api) =>
         /\ api'.pc \in {"wrapper", "returned", "raised"} => api'.idx > RecordsOnDisk(api)
         /\ \A j \in 1..Len(api'.trace) : api'.trace[j].idx = RecordsOnDisk(api) + j
         /\ api'.pc = "done" =>
              /\ Len(api'.trace) = Total(api.rows, api.limit) - RecordsOnDisk(api)
              /\ api'.disk.lines = UninterruptedLines(api', Total(api.rows, api.limit))]_vars

\* C1 witness: a run resumed on one whole record of two has ended, having
\* queried the client for the second.
C1_Witness ==
    /\ api.pc = "done" /\ api.resume /\ api.det /\ api.write_mode = "a"
    /\ api.processed_rows = 1 /\ api.total = 2
    /\ Len(api.trace) = 1 /\ api.trace[1].via = "Queried"
    /\ api.disk.lines = UninterruptedLines(api, 2)

\* The records the current run has handed to the writer that are not whole
\* in the output file.
MissingOnDisk(a) ==
    {j \in 1..Len(a.trace) :
        LET at == a.trace[j].idx + 1
        IN  ~(at <= Len(a.disk.lines) /\ WholeLine(a.disk.lines[at], a.trace[j].cells))}

\* C2 as claimed: when the viaAPI main is killed, at most one record it has
\* processed is missing from the output file, and every record line of the
\* file is whole.
C2_FlushedPerRecord ==
    api.pc = "killed" =>
        /\ Cardinality(MissingOnDisk(api)) <= 1
        /\ \A i \in 2..Len(api.disk.lines) :
               api.disk.lines[i].st = "ok" /\ api.disk.lines[i].eol

\* The first row of the output file as a reader of the file gets it: the
\* cells of a whole line (with or without its terminator), something else
\* for a line that was cut or had other text appended.
HeaderOnDisk(file) ==
    IF file.lines[1].st = "ok" THEN file.lines[1].cells ELSE Damaged

\* --resume finds an output file whose first row is not empty and is not
\* the expected header.
C5_Mismatch(a, resume) ==
    /\ a.pc \in ApiStopped
    /\ a.mode = "main"
    /\ resume
    /\ a.disk.exists /\ a.disk.lines # <<>>
    /\ HeaderOnDisk(a.disk) # <<>>
    /\ HeaderOnDisk(a.disk) # ExpectedHeader(a.fieldnames)

\* The run that starts in this step is aborted at once: no record handled,
\* no client call, the output file as it was.
C5_Aborts ==
    /\ api'.pc = "aborted"
    /\ api'.trace = <<>> /\ api'.outcomes = <<>>
    /\ api'.disk = api.disk

\* C5 as claimed: a run with --resume on an output file with another,
\* non-empty header aborts with no record processed, no client call and the
\* output file unchanged.
C5_AsClaimed ==
    [][(api'.run = api.run + 1 /\ C5_Mismatch(api, api'.resume)) => C5_Aborts]_vars

\* C5: as claimed when the input has a record.  With an empty input the run
\* ends before it looks at the output file: no abort, and still no client
\* call and the output file unchanged.
C5_HeaderMismatch ==
    [][(api'.run = api.run + 1 /\ C5_Mismatch(api, api'.resume)) =>
         IF api.rows # <<>> THEN C5_Aborts
         ELSE /\ api'.pc = "done"
              /\ api'.trace = <<>> /\ api'.outcomes = <<>>
              /\ api'.disk = api.disk]_vars

\* C5 witness: a run with --resume over a non-empty input was aborted on
\* the header of another file, which is still there.
C5_Witness ==
    /\ api.pc = "aborted" /\ api.resume /\ api.rows # <<>>
    /\ api.disk = ForeignFile
    /\ api.trace = <<>>

Min(a, b) == IF a < b THEN a ELSE b

\* total = min(N, limit), a limit <= 0 meaning N.
C6_Total(rows, limit) == IF limit <= 0 THEN Len(rows) ELSE Min(Len(rows), limit)

\* The line is whole and holds, under the expected header, the input record.
C6_RecordOf(a, line, row) ==
    /\ line.st = "ok" /\ line.eol
    /\ Len(line.cells) = Len(ExpectedHeader(a.fieldnames))
    /\ \A c \in 1..Len(a.fieldnames) : line.cells[c] = get(row, a.fieldnames[c])

\* The output file holds the expected header and one whole record for each
\* of the first n input records, in input order.
C6_Records(a, n) ==
    /\ Len(a.disk.lines) = n + 1
    /\ a.disk.lines[1] = Line(ExpectedHeader(a.fieldnames))
    /\ \A i \in 1..n : C6_RecordOf(a, a.disk.lines[i + 1], a.rows[i])

\* What the run wrote is in the file where it belongs, and a record whose
\* query failed has its three news columns empty.
C6_Written(a) ==
    \A j \in 1..Len(a.trace) :
        /\ a.trace[j].idx = (C6_Total(a.rows, a.limit) - Len(a.trace)) + j
        /\ a.disk.lines[a.trace[j].idx + 1].cells = a.trace[j].cells
        /\ a.trace[j].via = "Failed" =>
               NewsCells(a.trace[j].cells, a.output_fields) = {<<>>}

C6_Ends ==
    \/ /\ api.pc = "loop" /\ api'.pc = "done"
       /\ \/ api.write_mode = "w"
          \/ C6_Records(api, RecordsOnDisk(api))
    \/ /\ api'.run = api.run + 1 /\ api'.pc = "done"
       /\ api.rows # <<>>
       /\ api.disk.exists
       /\ C6_Records(api, C6_Total(api.rows, api'.limit))

\* No record beyond total is queried or written, and a run that ends as in
\* C6_Ends leaves exactly total records, record i being input record i.
C6_Step ==
    /\ api'.pc \in {"wrapper", "returned", "raised"} =>
           api'.idx <= C6_Total(api'.rows, api'.limit)
    /\ \A j \in 1..Len(api'.trace) :
           api'.trace[j].idx <= C6_Total(api'.rows, api'.limit)
    /\ C6_Ends =>
           /\ C6_Records(api', C6_Total(api'.rows, api'.limit))
           /\ C6_Written(api')

BlankChars == {" ", "\t", "\n", "\r"}

\* Every context field of the row is missing, empty or whitespace only.
Blank(row) ==
    \A f \in ToSet(CONTEXT_FIELDS) : ToSet(get(row, f)) \subseteq BlankChars

\* The viaAPI main: no client call for a blank record, and the record is
\* written with its news columns empty.
C7_API ==
    /\ \A i \in 1..Len(api.rows) :
           Blank(api.rows[i]) => _build_context(api.rows[i], MAX_LEN_API) = <<>>
    /\ api.pc \in {"wrapper", "returned", "raised"} => ~Blank(api.rows[api.idx])
    /\ \A j \in 1..Len(api.trace) :
           Blank(api.rows[api.trace[j].idx]) =>
               /\ api.trace[j].via = "NoContext"
               /\ NewsCells(api.trace[j].cells, api.output_fields) = {<<>>}

\* The WEB main: the same, its records counted from 0.
C7_WEB ==
    /\ \A i \in 1..Len(web.rows) :
           Blank(web.rows[i]) => _build_context(web.rows[i], MAX_LEN_WEB) = <<>>
    /\ web.pc \in {"wrapper", "returned"} => ~Blank(web.rows[web.idx + 1])
    /\ \A j \in 1..Len(web.trace) :
           Blank(web.rows[web.trace[j].idx + 1]) =>
               /\ web.trace[j].via = "NoContext"
               /\ NewsCells(web.trace[j].cells, web.output_fields) = {<<>>}

\* C7: in both variants a record whose context fields are all blank has an
\* empty context, causes no client call and is written with every news
\* column empty.
C7_BlankNoCall ==
    /\ api.pc # "off" => C7_API
    /\ web.pc # "off" => C7_WEB

\* C7 witness: a run of the viaAPI main, or one of the WEB main, has
\* written a blank record without a query and then a record it queried.
C7_Witness ==
    \/ /\ api.pc = "done" /\ Len(api.trace) = 2
       /\ Blank(api.rows[1]) /\ ~Blank(api.rows[2])
       /\ api.trace[1].via = "NoContext" /\ api.trace[2].via = "Queried"
    \/ /\ web.pc = "done" /\ Len(web.trace) = 2
       /\ Blank(web.rows[1]) /\ ~Blank(web.rows[2])
       /\ web.trace[1].via = "NoContext" /\ web.trace[2].via = "Queried"

\* The context of the record of a trace entry.
C9_Context(j) == _build_context(api.rows[api.trace[j].idx], MAX_LEN_API)

\* Two records of the run, j written before k, with the same non-empty
\* context.
C9_Pairs ==
    {p \in (1..Len(api.trace)) \X (1..Len(api.trace)) :
        /\ p[1] < p[2]
        /\ C9_Context(p[1]) # <<>>
        /\ C9_Context(p[1]) = C9_Context(p[2])}

\* C9 as claimed: of two records of a run with the same context only the
\* earlier one queries the client, and both have the same news columns.
C9_AsClaimed ==
    api.pc # "off" =>
        \A p \in C9_Pairs :
            /\ api.trace[p[2]].via = "Cached"
            /\ NewsCells(api.trace[p[2]].cells, api.output_fields)
                   = NewsCells(api.trace[p[1]].cells, api.output_fields)

\* C9: of two records of a run with the same non-empty context, when the
\* earlier one was answered (by the client or the cache) the later one is
\* served from the cache with the same news columns; the later one queries
\* the client again only when every earlier query for the context failed.
C9_CachedOnSuccess ==
    api.pc # "off" =>
        \A p \in C9_Pairs :
            /\ api.trace[p[1]].via \in {"Queried", "Cached"} =>
                   /\ api.trace[p[2]].via = "Cached"
                   /\ api.trace[p[2]].cells[4] = api.trace[p[1]].cells[4]
                   /\ api.trace[p[2]].cells[5] = api.trace[p[1]].cells[5]
                   /\ api.trace[p[2]].cells[6] = api.trace[p[1]].cells[6]
            /\ api.trace[p[2]].via \in {"Queried", "Failed"} =>
                   api.trace[p[1]].via = "Failed"

\* C9 witness: two records with the same context, the first answered by
\* the client with links, the second served from the cache.
C9_Witness ==
    /\ api.pc = "done" /\ Len(api.trace) = 2
    /\ C9_Context(1) = C9_Context(2) /\ C9_Context(1) # <<>>
    /\ api.trace[1].via = "Queried" /\ api.trace[2].via = "Cached"
    /\ api.trace[1].cells[4] # <<>>

\* The client call gave a text that is not empty.
YieldsText(o) == o.kind = "response" /\ _output_text_from_response(o) # <<>>

\* What a failed client call leaves in last_err.
FailureOf(o) ==
    IF o.kind = "response" THEN [kind |-> "ValueError", code |-> 0]
    ELSE [kind |-> o.kind, code |-> o.code]

C3_Padded(cells, n) == [i \in 1..n |-> IF i <= Len(cells) THEN cells[i] ELSE <<>>]

\* The last m lines of the output file are whole and hold, in order, the
\* first m records this run has written.
C3_OnDisk(w, m) ==
    LET lines == w.disk.lines
        n == Len(lines)
    IN  /\ m > 0 => n >= m + 1
        /\ \A j \in 1..m :
               /\ lines[n - m + j].st = "ok" /\ lines[n - m + j].eol
               /\ lines[n - m + j].cells
                      = C3_Padded(w.trace[j].cells, Len(lines[1].cells))

\* Every record the run has written is in the output file, but for the one
\* just handed to the writer; so it is during the pacing sleep, at the next
\* call of the client, and after a kill or a crash.
C3_Flushed(w) ==
    /\ w.trace # <<>> =>
           \/ C3_OnDisk(w, Len(w.trace))
           \/ /\ w.pc \in {"written", "killed"}
              /\ C3_OnDisk(w, Len(w.trace) - 1)
    /\ w.pc \in {"sleep", "loop", "wrapper", "returned", "classified",
                 "rewrite", "write", "done", "crashed"} =>
           (w.trace # <<>> => C3_OnDisk(w, Len(w.trace)))

\* Every record of file f is a record of file g, at the same place, whole,
\* with the same value in each column of f: the header of g starts with the
\* header of f, and so each row of g with the row of f.
C3_Kept(f, g) ==
    \/ f = g
    \/ ~f.exists
    \/ Len(f.lines) < 2
    \/ LET n == Len(FirstRow(f))
       IN  /\ g.exists /\ Len(g.lines) >= Len(f.lines)
           /\ Len(FirstRow(g)) >= n
           /\ SubSeq(FirstRow(g), 1, n) = FirstRow(f)
           /\ \A i \in 2..Len(f.lines) :
                  /\ g.lines[i].st = "ok" /\ g.lines[i].eol
                  /\ Len(g.lines[i].cells) >= n
                  /\ SubSeq(g.lines[i].cells, 1, n) = C3_Padded(f.lines[i].cells, n)

\* C3: in the WEB main every record is written and flushed before the
\* pacing sleep and before the next call of the client, also when the
\* header grows and the output file is rewritten for that record; a kill
\* at any point loses at most the record in flight, and no step of the
\* program, a kill and the start of a later run included, removes or
\* changes a record the output file holds.
C3_FlushedAndKept ==
    [][C3_Flushed(web') /\ C3_Kept(web.disk, web'.disk)]_vars

\* C3 witness: the second record of a run brought more links than the
\* header had columns; the file was rewritten under the longer header and
\* holds both records, and the run is in its pacing sleep.
C3_Witness ==
    /\ web.pc = "sleep"
    /\ Len(web.trace) = 2
    /\ Len(web.trace[1].cells) < Len(web.trace[2].cells)
    /\ Len(web.disk.lines) = 3
    /\ Len(web.disk.lines[1].cells) = Len(web.trace[2].cells)
    /\ web.disk.lines[2].cells # web.trace[1].cells

\* The records the output file holds when the loop is entered.
C4_RecordsOnDisk(w) == IF w.disk.lines = <<>> THEN 0 ELSE Len(w.disk.lines) - 1

\* C4 as claimed: when the WEB main enters its loop, the number of input
\* records it will skip is the number of records in the output file, also
\* when a value holds a line break.
C4_CursorIsRecords ==
    (web.pc = "loop" /\ web.idx = 0) =>
        web.processed_count = C4_RecordsOnDisk(web)

\* C8 as claimed: whatever text the wrapper of the WEB main returned,
\* _process_response_text returns and the record goes on to be written.
C8_NeverRaises ==
    [][(web.pc = "returned" /\ web'.pc # "killed") => web'.pc = "classified"]_vars

\* The client call raised.
C11_Failed(o) == o.kind # "response"

\* What holds of the WEB wrapper in every state.
C11_State ==
    LET n == Len(web.outcomes)
    IN  /\ n <= web.max_retries
        /\ web.pc = "wrapper" =>
               /\ web.attempt = n
               /\ \A k \in 1..n : C11_Failed(web.outcomes[k])
        /\ (web.pc = "returned" /\ \A k \in 1..n : C11_Failed(web.outcomes[k])) =>
               /\ n = web.max_retries
               /\ web.raw_text = SENTINEL
        /\ (/\ web.pc = "written" /\ web.via = "Queried"
            /\ \A k \in 1..n : C11_Failed(web.outcomes[k])) =>
               /\ n = web.max_retries
               /\ NewsCells(web.trace[Len(web.trace)].cells,
                            web.output_fields) = {<<>>}

\* A step of the WEB wrapper stays in the wrapper or returns, unless the
\* process is killed.
C11_Step ==
    web.pc = "wrapper" => web'.pc \in {"wrapper", "returned", "killed"}

\* C11: the WEB wrapper never raises, whatever the client raises (rate
\* limits included); it calls the client at most max_retries times; when
\* every call has failed it returns the sentinel "{}" after max_retries
\* calls, so no call follows three failures when max_retries is 3, and the
\* main writes the record with every news column empty.
C11_LenientWrapper ==
    /\ [](web.pc # "off" => C11_State)
    /\ [][web.pc # "off" => C11_Step]_vars

\* C11 witness: in a run of the WEB main three calls for a record were
\* answered by the rate limit, and the record is written.
C11_Witness ==
    /\ web.pc = "written" /\ web.mode = "main" /\ web.via = "Queried"
    /\ web.max_retries = 3
    /\ Len(web.outcomes) = 3
    /\ \A k \in 1..3 : web.outcomes[k] = Raises("ClientError", 429)
    /\ web.sleeps = <<60, 60, 60>>

\* The client call returned a response without text.
C12_EmptyResponse(o) == o.kind = "response" /\ o.text = <<>> /\ o.parts = <<>>

\* C12: in the wrapper of both variants a call that returns a response
\* without text is a failed attempt: the wrapper does not return on it
\* while calls are left, but calls the client again.
C12_EmptyIsRetried ==
    /\ api.pc # "off" =>
           LET n == Len(api.outcomes)
           IN  (n >= 1 /\ C12_EmptyResponse(api.outcomes[n]) /\ n < api.max_retries)
                   => api.pc # "returned"
    /\ web.pc # "off" =>
           LET n == Len(web.outcomes)
           IN  (n >= 1 /\ C12_EmptyResponse(web.outcomes[n]) /\ n < web.max_retries)
                   => web.pc # "returned"

\* C13: in the viaAPI wrapper the sleep after a call that failed with
\* ClientError 429 is the fixed 60 seconds, not 2 ** attempt plus jitter.
C13_CoolDown ==
    api.pc # "off" =>
        \A k \in 1..Len(api.sleeps) :
            api.outcomes[k] = Raises("ClientError", 429) =>
                api.sleeps[k] = [base |-> 60, jitter |-> FALSE]

\* C14: in the viaAPI wrapper a call that fails with ClientError 403 is the
\* last call: the wrapper raises that error at once, without a sleep and
\* without another call.
C14_FatalAtOnce ==
    api.pc # "off" =>
        LET n == Len(api.outcomes)
        IN  \A k \in 1..n :
                api.outcomes[k] = Raises("ClientError", 403) =>
                    /\ k = n
                    /\ api.pc = "raised"
                    /\ api.last_err = [kind |-> "ClientError", code |-> 403]
                    /\ Len(api.sleeps) = n - 1

\* The host name of the URL made of the parts, in lower case.
HostOf(p) == lower(p.www \o p.host)

\* The host name without a leading www. label.
BareHostOf(p) ==
    IF startswith(HostOf(p), <<"www", ".">>)
    THEN SubSeq(HostOf(p), 3, Len(HostOf(p)))
    ELSE HostOf(p)

\* The lists of a classification that hold the URL.
ListsWith(out, url) ==
    {k \in {"tse", "tre", "geral"} : url \in ToSet(out[k])}

\* C15: in both variants every URL whose host is tse.jus.br or a subdomain
\* of it has its normalized form in the TSE list and in no other list,
\* whatever its scheme, with and without a leading www. and without a
\* scheme.
C15_TseOnly ==
    /\ api.pc = "classified" =>
           \A i \in 1..Len(api.items) :
               _is_tse_domain(HostOf(api.items[i])) =>
                   ListsWith(api.out, _normalize_url(api.urls[i])) = {"tse"}
    /\ web.pc = "classified" =>
           \A i \in 1..Len(web.items) :
               _is_tse_domain(HostOf(web.items[i])) =>
                   ListsWith(web.out, _normalize_url(web.urls[i])) = {"tse"}

\* C16: in both variants every URL whose host ends with a label
\* tre-xx.jus.br, in any case and after any subdomain labels, has its
\* normalized form in the TRE list and in no other list; a URL whose host
\* has other text right before tre- is not in the TRE list.
C16_TreOnly ==
    /\ api.pc = "classified" =>
           \A i \in 1..Len(api.items) :
               LET in == ListsWith(api.out, _normalize_url(api.urls[i]))
               IN  /\ _is_tre_domain(HostOf(api.items[i])) => in = {"tre"}
                   /\ ~_is_tre_domain(HostOf(api.items[i])) => "tre" \notin in
    /\ web.pc = "classified" =>
           \A i \in 1..Len(web.items) :
               LET in == ListsWith(web.out, _normalize_url(web.urls[i]))
               IN  /\ _is_tre_domain(HostOf(web.items[i])) => in = {"tre"}
                   /\ ~_is_tre_domain(HostOf(web.items[i])) => "tre" \notin in

\* C17: in the viaAPI variant a URL whose host is neither a TSE nor a TRE
\* host has its normalized form in the general list exactly when the host
\* is a listed domain or a subdomain of one, and is in no list otherwise
\* (unknown host, no host, a host urlparse rejects).
C17_GeneralByList ==
    api.pc = "classified" =>
        \A i \in 1..Len(api.items) :
            LET host == HostOf(api.items[i])
            IN  (~_is_tse_domain(host) /\ ~_is_tre_domain(host)) =>
                    ListsWith(api.out, _normalize_url(api.urls[i])) =
                        IF _is_general_domain(host) THEN {"geral"} ELSE {}

\* The URL of the parts without its port and its user credentials.
C19_Bare(p) == _normalize_url(UrlText([p EXCEPT !.port = <<>>, !.user = <<>>]))

\* The lists a URL of the given branch of _classify_urls is put in.
C19_ListsOf(kind) == IF kind \in {"skip", "none"} THEN {} ELSE {kind}

\* The parts hold a host name that urlparse accepts.
C19_HasHost(p) == p.host # <<>> /\ ~UrlparseRaises(p.host)

\* C19: _domain_from_url gives the host name of the URL in lower case and
\* without a leading www., its port and its user credentials left out, and
\* the URL is classified as the same URL without port and credentials is.
C19_BareHost ==
    /\ api.parsed =>
           \A i \in 1..Len(api.items) :
               C19_HasHost(api.items[i]) =>
                   api.domains[i] = BareHostOf(api.items[i])
    /\ api.pc = "classified" =>
           \A i \in 1..Len(api.items) :
               C19_HasHost(api.items[i]) =>
                   ListsWith(api.out, _normalize_url(api.urls[i])) =
                       C19_ListsOf(KindAPI(C19_Bare(api.items[i])))
    /\ web.pc = "classified" =>
           \A i \in 1..Len(web.items) :
               C19_HasHost(web.items[i]) =>
                   ListsWith(web.out, _normalize_url(web.urls[i])) =
                       C19_ListsOf(KindWEB(C19_Bare(web.items[i])))

\* The host is a domain of the allow-list of the WEB variant or a
\* subdomain of one.
C18_OnList(host) ==
    \E b \in 1..Len(GENERAL_DOMAINS_WEB) :
        \/ host = GENERAL_DOMAINS_WEB[b]
        \/ endswith(host, <<".">> \o GENERAL_DOMAINS_WEB[b])

\* C18: in the WEB variant a URL whose host is neither a TSE nor a TRE
\* host has its normalized form in the general list when the host is on
\* the allow-list or does not contain "jus.br", and is in no list when the
\* host contains "jus.br" and is not on the allow-list.
C18_GeneralByFallback ==
    web.pc = "classified" =>
        \A i \in 1..Len(web.items) :
            LET host == HostOf(web.items[i])
            IN  (/\ C19_HasHost(web.items[i])
                 /\ ~_is_tse_domain(host) /\ ~_is_tre_domain(host)) =>
                    ListsWith(web.out, _normalize_url(web.urls[i])) =
                        IF C18_OnList(host) \/ ~contains(host, Dom(<<"jus", "br">>))
                        THEN {"geral"} ELSE {}

\* C20: for every model text _extract_json of both variants returns a
\* mapping, never a list, a string, a number or null: the object the
\* cleaned text or its brace span parses to, else the empty mapping.
C20_AlwaysMapping ==
    /\ api.pc = "extracted" => api.data.tag = "obj"
    /\ web.pc = "extracted" => web.data.tag = "obj"

\* The model text is the object between an opening fence line, with or
\* without json, and a closing fence line.
C21_Fenced(a) ==
    /\ a.before \in {<<FENCE, "json", NL>>, <<FENCE, NL>>}
    /\ a.after \in {<<NL, FENCE>>, <<NL, FENCE, NL>>}

\* C21: _extract_json gives for a JSON object text between code fences the
\* mapping it gives for the object text itself, the object of that text.
C21_FenceTransparent ==
    (api.bare_done /\ api.data_done /\ C21_Fenced(api)) =>
        /\ api.data = api.bare
        /\ api.bare = json_loads(api.object).v
        /\ api.bare.tag = "obj"

\* C21 witness: both calls are made for the object with a link between a
\* json fence line and a closing fence line, and the link is in the result.
C21_Witness ==
    /\ api.bare_done /\ api.data_done
    /\ api.object = TEXT_TRE
    /\ api.before = <<FENCE, "json", NL>> /\ api.after = <<NL, FENCE>>
    /\ api.data = json_loads(TEXT_TRE).v
    /\ api.data.items # <<>>

\* Both calls are made and the model text is not JSON as a whole.
C30_Case(a) ==
    a.bare_done /\ a.data_done /\ ~json_loads(Cleaned(a.text)).ok

\* No "{" stands before the object and no "}" after it.
C30_Outermost(a) == "{" \notin ToSet(a.before) /\ "}" \notin ToSet(a.after)

\* C30 as claimed: for a model text that is not JSON and holds a JSON
\* object, _extract_json gives the object when no "{" precedes it and no
\* "}" follows it, and the empty mapping otherwise.
C30_AsClaimed ==
    C30_Case(api) =>
        api.data = IF C30_Outermost(api) THEN api.bare ELSE JObj(<<>>)

\* C30: for a model text that is not JSON and holds a JSON object,
\* _extract_json gives the object when no "{" precedes it and no "}"
\* follows it; otherwise it gives what the span from the first "{" to the
\* last "}" of the text parses to, and the empty mapping when that span is
\* not JSON.
C30_SpanRecovered ==
    C30_Case(api) =>
        LET span == json_loads(BraceSpan(api.text))
        IN  /\ C30_Outermost(api) => api.data = api.bare
            /\ ~C30_Outermost(api) =>
                   api.data = IF span.ok THEN span.v ELSE JObj(<<>>)
            /\ api.data.tag = "obj"

\* C30 witness: the object with a link stands between prose without
\* braces, the text is not JSON, and the object is the result.
C30_Witness ==
    /\ C30_Case(api) /\ api.object = TEXT_TRE
    /\ api.before = <<"see", " ">> /\ api.after = <<" ", "thanks">>
    /\ api.data = api.bare /\ api.data.items # <<>>

\* The listed URL as the row should hold it: what stands around it left
\* out, https:// before it when it has no scheme.
C22_Plain(p) ==
    (IF p.scheme = <<>> THEN <<"https://">> ELSE p.scheme)
    \o p.user \o p.www \o p.host \o p.port \o p.tail

\* The category of the host of a listed URL.
C22_Category(p) ==
    IF _is_tse_domain(BareHostOf(p)) THEN "tse"
    ELSE IF _is_tre_domain(BareHostOf(p)) THEN "tre"
    ELSE IF _is_general_domain(BareHostOf(p)) THEN "geral"
    ELSE "none"

\* The URLs of one category among the listed ones, each once, in the order
\* the response lists them.
C22_Expected(listed, category) ==
    LET all == listed.tse \o listed.tre \o listed.geral
        first == {i \in 1..Len(all) :
                     /\ C22_Category(all[i]) = category
                     /\ \A j \in 1..(i - 1) : C22_Plain(all[j]) # C22_Plain(all[i])}
        sel == SelectSeq([i \in 1..Len(all) |-> [i |-> i, p |-> all[i]]],
                         LAMBDA e : e.i \in first)
    IN  [j \in 1..Len(sel) |-> C22_Plain(sel[j].p)]

\* The cell of a column in a written row.
C22_Cell(a, cells, column) ==
    cells[CHOOSE i \in 1..Len(a.output_fields) : a.output_fields[i] = column]

\* The written row holds the listed URLs of a response, by category.
C22_RowHolds(a, cells, listed) ==
    /\ C22_Cell(a, cells, "noticia_TSE") = join(<<",", " ">>, C22_Expected(listed, "tse"))
    /\ C22_Cell(a, cells, "noticia_TRE") = join(<<",", " ">>, C22_Expected(listed, "tre"))
    /\ C22_Cell(a, cells, "noticia_geral") = join(<<",", " ">>, C22_Expected(listed, "geral"))

\* The step of main that writes the record of a returned response.
C22_Step ==
    /\ api.pc = "returned"
    /\ api'.pc = "loop"
    /\ api'.idx = api.idx + 1

\* C22: in a run of the viaAPI main over a record whose only context field
\* is tema, when the client answers with a fenced response that lists URLs
\* under the three keys, the row written holds in each news column the
\* normalized URLs whose host is of the column's category, joined by ", ",
\* and the empty string when there is none.
C22_EndToEnd ==
    [][C22_Step =>
          C22_RowHolds(api', api'.trace[Len(api'.trace)].cells,
                       api.outcomes[Len(api.outcomes)].listed)]_vars

\* The three lists of a classification, one after the other.
C25_All(out) == out.tse \o out.tre \o out.geral

\* First position of a URL among the normalized candidates, 0 for none.
C25_First(urls, url) ==
    LET at == {i \in 1..Len(urls) : _normalize_url(urls[i]) = url}
    IN  IF at = {} THEN 0 ELSE CHOOSE i \in at : \A j \in at : i <= j

\* No string is twice in the three lists together, every string of the
\* lists is the normalized form of a candidate, and each list is in the
\* order of the first occurrences of its URLs among the candidates.
C25_Partition(urls, out) ==
    /\ \A i, j \in 1..Len(C25_All(out)) :
           C25_All(out)[i] = C25_All(out)[j] => i = j
    /\ \A i \in 1..Len(C25_All(out)) : C25_First(urls, C25_All(out)[i]) > 0
    /\ \A k \in {"tse", "tre", "geral"} :
           \A i, j \in 1..Len(out[k]) :
               i < j => C25_First(urls, out[k][i]) < C25_First(urls, out[k][j])

\* C25: for every sequence of candidates the three lists _classify_urls
\* returns, in both variants, are pairwise disjoint and without repeats,
\* hold normalized candidates only, and keep within each list the order of
\* first occurrence in the input.
C25_DisjointOrdered ==
    /\ api.pc = "classified" => C25_Partition(api.urls, api.out)
    /\ web.pc = "classified" => C25_Partition(web.urls, web.out)

\* C25 witness: both variants have classified three candidates, a TSE link,
\* another TSE link and the first one again, and return the two in order.
C25_Witness ==
    /\ api.pc = "classified" /\ web.pc = "classified"
    /\ Len(api.urls) = 3
    /\ api.urls[1] = api.urls[3] /\ api.urls[1] # api.urls[2]
    /\ api.out.tse = <<api.urls[1], api.urls[2]>>
    /\ web.out.tse = <<api.urls[1], api.urls[2]>>

\* Two candidates that differ in the letter case of the host and in nothing
\* else.
C26_SameButCase(p, q) ==
    /\ p.host # q.host
    /\ lower(p.host) = lower(q.host)
    /\ [p EXCEPT !.host = <<>>] = [q EXCEPT !.host = <<>>]

\* Of candidates that differ only in the letter case of the host the later
\* one is in no list.
C26_FirstOnly(items, urls, out) ==
    \A i, j \in 1..Len(items) :
        i < j /\ C26_SameButCase(items[i], items[j]) =>
            ListsWith(out, _normalize_url(urls[j])) = {}

\* C26: in both variants, of two candidates that differ only in the letter
\* case of the host only the first is in the lists _classify_urls returns.
C26_HostCaseFolded ==
    /\ api.pc = "classified" => C26_FirstOnly(api.items, api.urls, api.out)
    /\ web.pc = "classified" => C26_FirstOnly(web.items, web.urls, web.out)

\* The candidates the values under the three keys stand for: of a list its
\* string elements, of a string its URL tokens, of anything else and of a
\* missing key nothing.
C27_Coerced(given) ==
    given[1].strings \o given[1].tokens \o given[2].strings \o given[2].tokens
    \o given[3].strings \o given[3].tokens

\* C27: in both variants the candidates taken from the three expected keys
\* are, key by key, the string elements of a list value in order, the URL
\* tokens of a scalar string value, and nothing for a value of another type
\* and for a missing key.
C27_KeysCoerced ==
    /\ api.pc \in {"keys", "done"} => api.keys = C27_Coerced(api.given)
    /\ web.pc \in {"keys", "done"} => web.keys = C27_Coerced(web.given)

\* The viaAPI half of C27.
C27_ApiCoerced ==
    api.pc \in {"keys", "done"} => api.keys = C27_Coerced(api.given)

\* With a candidate from the keys the lists hold normalized candidates of
\* the keys only; with none, the link that stands elsewhere in the text is
\* in the list of its category.
C28_Scan(a) ==
    /\ a.keys # <<>> =>
           \A k \in {"tse", "tre", "geral"} : \A i \in 1..Len(a.out[k]) :
               \E j \in 1..Len(a.keys) : a.out[k][i] = _normalize_url(a.keys[j])
    /\ a.keys = <<>> /\ a.extra # "none" =>
           ListsWith(a.out, URL_ELSEWHERE) = {"geral"}
    /\ a.scanned <=> a.keys = <<>>

\* C28: in both variants the raw text is scanned for URL tokens exactly
\* when the three keys gave no candidate; when they gave one, even one that
\* no list takes, a link elsewhere in the text is in no list.
C28_ScanOnlyWhenEmpty ==
    /\ api.pc = "done" => C28_Scan(api)
    /\ web.pc = "done" => C28_Scan(web)

\* C28 witness: the keys gave one candidate, a link of an unlisted site
\* that viaAPI puts in no list, the object holds a listed link under
\* another key, and both variants have returned: viaAPI three empty lists.
C28_Witness ==
    /\ api.pc = "done" /\ web.pc = "done"
    /\ api.keys = <<URL_RANDOM>> /\ web.keys = <<URL_RANDOM>>
    /\ api.extra = "member"
    /\ api.out = NoUrls
    /\ ~api.scanned /\ ~web.scanned

\* The response is a JSON object that holds the empty list under each of
\* the three keys.
C29_AllEmpty(a) ==
    /\ a.extra # "prose"
    /\ \A k \in 1..3 : a.given[k] = ListValue(<<"[", "]">>, <<>>)

\* C29: when the response is a JSON object with the empty list under each
\* of the three expected keys, both variants return no link for any news
\* column, whatever else the object holds.
C29_EmptyStaysEmpty ==
    /\ api.pc = "done" /\ C29_AllEmpty(api) =>
           api.out = NoUrls /\ api.ret = <<EMPTY, EMPTY, EMPTY>>
    /\ web.pc = "done" /\ C29_AllEmpty(web) =>
           web.out = NoUrls /\ web.ret = <<EMPTY, EMPTY, <<>>>>

\* The global index of the last row of the batch at hand.
C23_LastOfLote(a) ==
    a.indice_inicial + a.i + Len(LoteIds(a.n, a.indice_inicial, a.i)) - 1

\* The step that ends the work on a batch leaves a checkpoint file with the
\* batch's last index and all results so far.
C23_Rewritten ==
    api.pc \in {"save", "writing"} /\ api'.pc = "sleep" =>
        api'.cp = Checkpoint(C23_LastOfLote(api), api.todos_os_resultados)

\* The checkpoint file goes away only when no batch is left and the final
\* CSV was written by this run.
C23_DeletedLast ==
    api.cp.exists /\ ~api'.cp.exists =>
        /\ api.pc = "csv" /\ api.csv
        /\ api.indice_inicial + api.i >= api.n

\* A run that ends by an exception or by a kill leaves the checkpoint that
\* was last saved.
C23_LeftInPlace ==
    api'.pc \in {"failed", "killed"} => api'.cp = api'.saved

\* C23: in processar_teses.main every processed batch ends with the
\* checkpoint file rewritten, the file is deleted only after all batches
\* were processed and the final CSV was written, and every run that ends
\* earlier, by an exception or by a kill at any point, leaves the most
\* recently saved checkpoint in place.
C23_Lifecycle ==
    [][C23_Rewritten /\ C23_DeletedLast /\ C23_LeftInPlace]_vars

\* The run read a checkpoint.
C24_Loaded(a) == a.pc # "idle" /\ a.loaded.exists /\ a.loaded.whole

\* A run that read a checkpoint with last index L holds the records of the
\* checkpoint before its own and has sent rows L+1..n-1 only.
C24_Resumes(a) ==
    C24_Loaded(a) =>
        /\ Len(a.todos_os_resultados) >= Len(a.loaded.registros)
        /\ SubSeq(a.todos_os_resultados, 1, Len(a.loaded.registros)) = a.loaded.registros
        /\ \A b \in 1..Len(a.sent) : \A k \in 1..Len(a.sent[b]) :
               a.sent[b][k] > a.loaded.indice /\ a.sent[b][k] < a.n

\* The checkpoint file holds the last index of the batch at hand.
C24_IndexOfLote(a) ==
    a.cp.whole /\ a.cp.indice = C23_LastOfLote(a)

C31_Trimmed(v) ==
    LET solid == {i \in 1..Len(v) : v[i] \notin BlankChars}
    IN  IF solid = {} THEN <<>>
        ELSE SubSeq(v, CHOOSE i \in solid : \A j \in solid : i <= j,
                       CHOOSE i \in solid : \A j \in solid : i >= j)

\* The value as the line holds it: whole when it has at most max_len
\* characters, else its first max_len characters without the blank ones at
\* their end, then "...".
C31_Emitted(v, max_len) ==
    IF Len(v) <= max_len THEN v
    ELSE LET head == SubSeq(v, 1, max_len)
             solid == {i \in 1..max_len : head[i] \notin BlankChars}
         IN  (IF solid = {} THEN <<>>
              ELSE SubSeq(head, 1, CHOOSE i \in solid : \A j \in solid : i >= j))
             \o <<"...">>

\* The context fields of the record that are not blank, in the order of
\* CONTEXT_FIELDS.
C31_Fields(row) ==
    SelectSeq(CONTEXT_FIELDS,
              LAMBDA f : f \in DOMAIN row /\ C31_Trimmed(row[f]) # <<>>)

\* The text made of one line "field: value" for each of these fields.
C31_Text(row, max_len) ==
    LET fields == C31_Fields(row)
        line(k) == <<fields[k], ":", " ">>
                   \o C31_Emitted(C31_Trimmed(row[fields[k]]), max_len)
    IN  IF fields = <<>> THEN <<>>
        ELSE line(1) \o (IF Len(fields) >= 2 THEN <<NL>> \o line(2) ELSE <<>>)
                     \o (IF Len(fields) >= 3 THEN <<NL>> \o line(3) ELSE <<>>)

C32_Designated(column) == column \in ToSet(NEWS_COLUMNS) \/ IsGeralN(column)

\* The cells of a written row outside the designated columns hold what the
\* input row holds in the column of the same name.
C32_Kept(cells, fields, row) ==
    \A k \in 1..Len(cells) :
        ~C32_Designated(fields[k]) => cells[k] = get(row, fields[k])

\* C32: in both variants every row written, whether for a record without
\* context, for one answered from the cache, for one that was queried or
\* for one whose call failed, holds in every column other than noticia_TSE,
\* noticia_TRE, noticia_geral and noticia_geral_<n> the value read from the
\* input row.
C32_InputColumnsKept ==
    /\ api.pc # "off" =>
           \A j \in 1..Len(api.trace) :
               C32_Kept(api.trace[j].cells, api.output_fields,
                        api.rows[api.trace[j].idx])
    /\ web.pc # "off" =>
           \A j \in 1..Len(web.trace) :
               C32_Kept(web.trace[j].cells, web.output_fields,
                        web.rows[web.trace[j].idx + 1])

\* C32 witness: a run of the viaAPI main has queried for a record and
\* answered the next one, whose tema has a blank before it, from the cache,
\* and both rows were written with links and with the input's id and tema.
C32_Witness ==
    /\ api.pc = "done" /\ Len(api.trace) = 2
    /\ api.trace[1].via = "Queried" /\ api.trace[2].via = "Cached"
    /\ api.rows[2].tema = <<" ", "X">>
    /\ api.trace[2].cells[2] = <<" ", "X">>
    /\ api.trace[2].cells[1] = api.rows[2].id
    /\ \E k \in 1..Len(api.trace[2].cells) :
           C32_Designated(api.output_fields[k]) /\ api.trace[2].cells[k] # <<>>

\* The row holds the links in order, link 0 in noticia_geral and link i in
\* noticia_geral_i, and no other numbered column.
C33_RowHolds(row, links) ==
    /\ "noticia_geral" \in DOMAIN row
    /\ row["noticia_geral"] = IF links = <<>> THEN <<>> ELSE links[1]
    /\ \A i \in 1..(Len(links) - 1) :
           GeralCol(i) \in DOMAIN row /\ row[GeralCol(i)] = links[i + 1]
    /\ \A c \in DOMAIN row :
           IsGeralN(c) => \E i \in 1..(Len(links) - 1) : c = GeralCol(i)

\* The step that puts the classified links into the row: the row holds
\* them, the header has their columns, and the file is rewritten only for
\* more than RESERVED + 1 links.
C33_Applied ==
    web.pc = "classified" /\ web'.pc # "killed" =>
        /\ web'.pc \in {"write", "rewrite"}
        /\ C33_RowHolds(web'.row, web.noticia_geral_links)
        /\ \A c \in DOMAIN web'.row :
               C32_Designated(c) => c \in ToSet(web'.output_fields)
        /\ web'.pc = "rewrite" => Len(web.noticia_geral_links) > RESERVED + 1

\* The step that writes the row: each general-link column of the header
\* holds the row's value, or nothing when the row has no such column.
C33_Written ==
    web.pc = "write" /\ web'.pc = "written" =>
        LET cells == web'.trace[Len(web'.trace)].cells
        IN  /\ Len(cells) = Len(web.output_fields)
            /\ \A k \in 1..Len(cells) :
                   web.output_fields[k] = "noticia_geral" \/ IsGeralN(web.output_fields[k]) =>
                       cells[k] = get(web.row, web.output_fields[k])

\* The step that puts the rewritten file in place inside the loop: as many
\* lines as before, in order, each cell under the column name it had.
C33_Replaced ==
    web.pc = "rewrite" /\ web'.pc = "write" =>
        LET old == web.disk.lines
            new == web'.disk.lines
            names == ColNames(old[1].cells)
        IN  /\ Len(new) = Len(old)
            /\ \A i \in 2..Len(old) : \A k \in 1..Len(names) :
                   \E m \in 1..Len(web.output_fields) :
                       /\ web.output_fields[m] = names[k]
                       /\ new[i].cells[m] = (IF k <= Len(old[i].cells)
                                             THEN old[i].cells[k] ELSE <<>>)
            /\ \A i \in 2..Len(old) : \A m \in 1..Len(web.output_fields) :
                   web.output_fields[m] \notin ToSet(names) => new[i].cells[m] = <<>>

\* C33: in the WEB variant the general links classified for a record are in
\* its output row in order, link 0 in noticia_geral and link i in
\* noticia_geral_i, with no other numbered column set; the file is
\* rewritten inside the loop only for a record with more than 51 general
\* links, and the rewrite keeps the number, the order and the cell values
\* of the rows written before it.
C33_GeralColumns ==
    [][C33_Applied /\ C33_Written /\ C33_Replaced]_vars

\* C33 witness: a run of the WEB main has written the row of a record with
\* 52 general links after a rewrite of the file that held one row: the row
\* holds the first link in noticia_geral and the last in noticia_geral_51,
\* and the file has the header, the earlier row and this one.
C33_Witness ==
    /\ web.pc = "written" /\ web.idx = 1
    /\ Len(web.trace) = 2
    /\ Len(web.output_fields) = Len(FIELDNAMES) + Len(NEWS_COLUMNS) + RESERVED + 1
    /\ web.row["noticia_geral"] = <<"https://", "site1">>
    /\ web.row[GeralCol(RESERVED + 1)] = <<"https://", "site52">>
    /\ web.trace[2].cells[Len(web.output_fields)] = <<"https://", "site52">>
    /\ Len(web.disk.lines) = 2
    /\ Len(web.disk.lines[2].cells) = Len(web.output_fields)

\* The rows of the batch at hand.
C34_Lote(a) == LoteIds(a.n, a.indice_inicial, a.i)

\* The last records of the run are one record with Tese "ERRO_LOTE" for
\* each row of the batch at hand, in the order of the rows.
C34_RecordedAsError(a) ==
    LET ids == C34_Lote(a)
        all == a.todos_os_resultados
    IN  /\ Len(all) >= Len(ids)
        /\ \A k \in 1..Len(ids) :
               /\ all[Len(all) - Len(ids) + k].original_index = ids[k]
               /\ all[Len(all) - Len(ids) + k].Tese = "ERRO_LOTE"

\* Every call made for the batch at hand failed, and there were three.
C34_AllFailed(a) ==
    /\ Len(a.calls) = 3
    /\ \A k \in 1..3 : a.calls[k] \in {"error", "unparseable", "nodict"}

\* No batch sees a fourth call, and a call that fails, with an API error or
\* with a response that does not parse, leaves the results as they were and
\* is followed by another call unless it was the third.
C34_Attempts ==
    /\ Len(api'.calls) <= 3
    /\ api.pc = "calling" /\ api'.pc # "killed"
       /\ api'.calls[Len(api'.calls)] \in {"error", "unparseable", "nodict"} =>
           /\ api'.todos_os_resultados = api.todos_os_resultados
           /\ api'.pc = IF Len(api'.calls) < 3 THEN "calling" ELSE "returned"

\* After three failed calls main appends the records of the batch as
\* errors and goes on to save the checkpoint.
C34_Recorded ==
    api.pc = "returned" /\ C34_AllFailed(api) /\ api'.pc # "killed" =>
        /\ api'.pc = "save"
        /\ Len(api'.todos_os_resultados) =
               Len(api.todos_os_resultados) + Len(C34_Lote(api))
        /\ C34_RecordedAsError(api')

\* The run has recorded the batch at hand after three failed calls.
C34_Failed(a) == a.pc \in {"save", "writing", "sleep"} /\ C34_AllFailed(a)

\* From a batch of three failed calls the run goes on: it never ends with
\* an exception, and after the pause it is at the next batch with the
\* records kept.
C34_Continues ==
    C34_Failed(api) /\ api'.pc # "killed" =>
        /\ api'.pc \in {"writing", "sleep", "loop"}
        /\ api'.todos_os_resultados = api.todos_os_resultados
        /\ api'.pc = "loop" => api'.i = api.i + TAMANHO_LOTE

\* The checkpoint file holds the records of the run and the last index of
\* the batch at hand.
C34_Saved(a) ==
    /\ a.cp.exists /\ a.cp.whole
    /\ a.cp.indice = a.indice_inicial + a.i + Len(C34_Lote(a)) - 1
    /\ a.cp.registros = a.todos_os_resultados

C35_Entries(a, id) ==
    {k \in 1..Len(a.todos_os_resultados) :
        a.todos_os_resultados[k].original_index = id}

\* C35: after a batch has been processed and checkpointed, the accumulated
\* results hold exactly one entry for every row index of that batch and no
\* entry for an index outside the rows of the input, whatever list of
\* results the API returned.
C35_OneEntryPerRow ==
    api.pc = "sleep" /\ C34_Saved(api) =>
        /\ \A k \in 1..Len(C34_Lote(api)) :
               Cardinality(C35_Entries(api, C34_Lote(api)[k])) = 1
        /\ \A k \in 1..Len(api.todos_os_resultados) :
               api.todos_os_resultados[k].original_index \in 0..(api.n - 1)

\* The run has written teses_processadas.csv.
C36_Completed(a) == a.pc \in {"csv", "done"} /\ a.csv

\* The written row of the record's index holds the record's column.
C36_Holds(a, k, column) ==
    LET registro == a.todos_os_resultados[k]
    IN  /\ registro.original_index \in DOMAIN a.saida
        /\ a.saida[registro.original_index][column] = registro[column]

\* C36: on successful completion the written teses_processadas.csv holds,
\* for every row with an entry in the accumulated results, the Tese, the
\* Justificativa and the Resultado of that entry, in the row with the
\* entry's original index.
C36_CsvHoldsEntries ==
    C36_Completed(api) =>
        \A k \in 1..Len(api.todos_os_resultados) :
            /\ C36_Holds(api, k, "Tese")
            /\ C36_Holds(api, k, "Justificativa")
            /\ C36_Holds(api, k, "Resultado")

====
